---- MODULE Spec2Model ----
(***************************************************************************)
(* Model of the ray tracer's render server (src/src/server.rs) and of the  *)
(* block scheduler of the renderer (src/src/render.rs).                    *)
(*                                                                         *)
(* The server part is a state machine of four kinds of threads:            *)
(*   - the controller thread (the loop of server::main),                   *)
(*   - one render thread per Job (spawned by reset_job),                   *)
(*   - one websocket actor per consumer (MyWs),                            *)
(*   - the thread that shuts the server down (set_stop).                   *)
(* Every action is one critical section of the mutex of MyServerData, or   *)
(* one channel operation.                                                  *)
(***************************************************************************)
EXTENDS Integers, Sequences, FiniteSets, TLC

(***************************************************************************)
(* Bounds of the model.                                                    *)
(***************************************************************************)
\* Consumers (websocket actors) that can be connected at the same time.
MaxClients == 2
\* Jobs sent on job_tx in one run, the default Job of main included.
MaxJobs == 2
\* Largest total_frames of a Job. The default Job of the source has 40
\* frames (server.rs:61); the model gives it MaxFrames frames.
MaxFrames == 2
\* Capacity of an actor's mailbox (actix's default is 16).
MailboxCap == 1

Clients == 1..MaxClients
JobIds == 1..MaxJobs

(***************************************************************************)
(* ClientState (server.rs:92-99).                                          *)
(***************************************************************************)
Absent == [k |-> "Absent", i |-> 0]
NeedsConfig == [k |-> "NeedsConfig", i |-> 0]
NeedsFrameMeta(i) == [k |-> "NeedsFrameMeta", i |-> i]
NeedsFrame(i) == [k |-> "NeedsFrame", i |-> i]
NeedsGifMeta == [k |-> "NeedsGifMeta", i |-> 0]
NeedsGif == [k |-> "NeedsGif", i |-> 0]
Complete == [k |-> "Complete", i |-> 0]

(***************************************************************************)
(* MyMsg / MetaMsg (server.rs:125-134), by what the message carries.  A    *)
(* binary payload is identified by the image it encodes: the Job that      *)
(* rendered it and the frame index (a png), or the Job and the order in    *)
(* which the frames were encoded (a gif).                                  *)
(***************************************************************************)
MsgReset(job) == [t |-> "Config", job |-> job]
MsgFrame(index) == [t |-> "FrameMeta", index |-> index]
MsgPng(frame) == [t |-> "FrameData", job |-> frame.job, index |-> frame.idx]
MsgGif == [t |-> "GifMeta"]
MsgGifData(gif) == [t |-> "GifData", job |-> gif.job, order |-> gif.order]

NoGif == [some |-> FALSE, job |-> 0, order |-> <<>>]

(***************************************************************************)
(* RenderJob (server.rs:31-37) and its Default (server.rs:58-68).  id is   *)
(* the position of the Job among the Jobs sent on job_tx: it tells two     *)
(* Jobs with equal parameters apart and is not a field of the source.      *)
(***************************************************************************)
MkJob(id, total_frames, samples_per_pixel, width, height, parallel) ==
    [id |-> id, total_frames |-> total_frames,
     samples_per_pixel |-> samples_per_pixel,
     width |-> width, height |-> height, parallel |-> parallel]

DefaultJob == MkJob(1, MaxFrames, 128 \div 4, 1280 \div 4, 720 \div 4, "per-frame")

\* RenderStatus::default (server.rs:81-89): a default Job that was never sent
\* on job_tx (id 0)
DefaultRenderStatus ==
    [job |-> [DefaultJob EXCEPT !.id = 0], frames |-> <<>>, gif |-> NoGif]

VARIABLES
    clients,      \* MyServerDataInner.clients: consumer -> ClientState
    job_q,        \* the Jobs in the job channel (job_tx -> job_rx)
    render,       \* MyServerDataInner.render: RenderStatus
    njobs,        \* number of Jobs sent on job_tx so far
    pc,           \* position of the controller thread in its loop
    frame_rx,     \* the controller's frame_rx: 0 (None) or the Job id of the channel
    needs_gif,    \* the controller's local needs_gif
    thr,          \* render thread of each Job: status and frames still to send
    chan,         \* frames queued in the frame channel of each Job
    actor,        \* websocket actor of each consumer: none, running, closed
    mailbox,      \* messages in the actor's mailbox, not yet handled
    sent,         \* messages try_send accepted for the consumer since the last Config
    should_stop,  \* should_stop_bool
    ws_log,       \* whether a websocket handler has logged a rejected text message
    rb            \* renderer block scheduling (ImageBlocker and spiral), see below

vars == <<clients, job_q, render, njobs, pc, frame_rx, needs_gif, thr, chan,
          actor, mailbox, sent, should_stop, ws_log, rb>>

serverVars == <<clients, job_q, render, njobs, pc, frame_rx, needs_gif, thr, chan,
                actor, mailbox, sent, should_stop, ws_log>>

RbIdle == [phase |-> "idle"]

ServerInit ==
    /\ clients = [c \in Clients |-> Absent]
    /\ job_q = <<DefaultJob>>
    /\ render = DefaultRenderStatus
    /\ njobs = 1
    /\ pc = "loop"
    /\ frame_rx = 0
    /\ needs_gif = FALSE
    /\ thr = [j \in JobIds |-> [st |-> "none", todo |-> {}, parallel |-> "per-frame"]]
    /\ chan = [j \in JobIds |-> <<>>]
    /\ actor = [c \in Clients |-> "none"]
    /\ mailbox = [c \in Clients |-> <<>>]
    /\ sent = [c \in Clients |-> <<>>]
    /\ should_stop = FALSE
    /\ ws_log = FALSE

Init == ServerInit /\ rb = RbIdle

(***************************************************************************)
(* Parsing a text message into a RenderJob: serde_json::from_str           *)
(* (server.rs:199) against the derive of RenderJob (server.rs:29-46).  A   *)
(* text is modelled by its syntax and, when it is a JSON object, by the    *)
(* value of each field: <<"int", n>>, <<"str", s>> or <<"missing", 0>>.    *)
(***************************************************************************)
JInt(n) == <<"int", n>>
JStr(s) == <<"str", s>>
JMissing == <<"missing", 0>>

MkText(syntax, total_frames, samples_per_pixel, width, height, parallel) ==
    [syntax |-> syntax, total_frames |-> total_frames,
     samples_per_pixel |-> samples_per_pixel,
     width |-> width, height |-> height, parallel |-> parallel]

JobText(n, p) == MkText("object", JInt(n), JInt(32), JInt(320), JInt(180), JStr(p))

ValidTexts == {JobText(n, p) : n \in 0..MaxFrames, p \in {"per-block", "per-frame"}}

InvalidTexts ==
    { MkText("garbage", JMissing, JMissing, JMissing, JMissing, JMissing),
      MkText("object", JMissing, JInt(32), JInt(320), JInt(180), JStr("per-frame")),
      MkText("object", JInt(-1), JInt(32), JInt(320), JInt(180), JStr("per-frame")),
      MkText("object", JStr("two"), JInt(32), JInt(320), JInt(180), JStr("per-block")),
      MkText("object", JInt(1), JInt(32), JInt(65536), JInt(180), JStr("per-block")),
      MkText("object", JInt(1), JInt(32), JInt(320), JInt(180), JStr("per-pixel")),
      MkText("object", JInt(1), JInt(32), JInt(320), JInt(180), JInt(0)) }

Texts == ValidTexts \cup InvalidTexts

\* an unsigned integer of `bits` bits (usize is taken as 64 bits; every
\* non-negative integer of the model fits 31 bits or more)
IsUInt(v, bits) == v[1] = "int" /\ v[2] >= 0 /\ (bits >= 31 \/ v[2] < 2 ^ bits)

\* the two renamed variants of ParallelType (server.rs:41-46)
IsParallelType(v) == v[1] = "str" /\ v[2] \in {"per-block", "per-frame"}

\* serde_json::from_str::<RenderJob>: ok, and the Job when ok
from_str(text, id) ==
    IF /\ text.syntax = "object"
       /\ IsUInt(text.total_frames, 64)
       /\ IsUInt(text.samples_per_pixel, 32)
       /\ IsUInt(text.width, 16)
       /\ IsUInt(text.height, 16)
       /\ IsParallelType(text.parallel)
    THEN [ok |-> TRUE,
          job |-> MkJob(id, text.total_frames[2], text.samples_per_pixel[2],
                        text.width[2], text.height[2], text.parallel[2])]
    ELSE [ok |-> FALSE, job |-> DefaultJob]

(***************************************************************************)
(* update_client (server.rs:446-488).                                      *)
(***************************************************************************)
DoSend(msg, next) == [do |-> "send", msg |-> msg, next |-> next]
DoContinue(next) == [do |-> "continue", msg |-> MsgGif, next |-> next]
DoBreak == [do |-> "break", msg |-> MsgGif, next |-> Absent]
\* indexing render.frames out of bounds
DoPanic == [do |-> "panic", msg |-> MsgGif, next |-> Absent]

\* variant: the position in render.frames is announced instead of the frame's index
frame_meta_index_position(frames, i) == i

\* variant: the index of the first collected frame is announced for every frame
frame_meta_index_first(frames, i) == frames[1].idx

\* the index announced for the frame at position i (0-based) of render.frames
frame_meta_index(frames, i) == frames[i + 1].idx

\* variant: the png of the first collected frame is sent for every frame
frame_data_first(frames, i) == MsgPng(frames[1])

\* MyMsg::Binary(render.frames[i].1.png.clone()) (server.rs:459)
frame_data(frames, i) == MsgPng(frames[i + 1])

\* variant: a consumer that is up to date is sent the gif again
complete_arm_resend(r) == DoSend(MsgGifData(r.gif), Complete)

\* ClientState::Complete => break (server.rs:471-472)
complete_arm(r) == DoBreak

\* the match on *cs, its arms tried in the order of the source
client_match(cs, r) ==
    IF cs.k = "NeedsConfig" THEN DoSend(MsgReset(r.job), NeedsFrameMeta(0))
    ELSE IF cs.k = "NeedsFrameMeta" /\ cs.i = r.job.total_frames
        THEN DoContinue(NeedsGifMeta)
    ELSE IF cs.k = "NeedsFrameMeta" /\ cs.i = Len(r.frames) THEN DoBreak
    ELSE IF cs.k = "NeedsFrame"
        THEN IF cs.i < Len(r.frames)
             THEN DoSend(frame_data(r.frames, cs.i), NeedsFrameMeta(cs.i + 1))
             ELSE DoPanic
    ELSE IF cs.k = "NeedsGif"
        THEN IF r.gif.some THEN DoSend(MsgGifData(r.gif), Complete) ELSE DoBreak
    ELSE IF cs.k = "NeedsFrameMeta"
        THEN IF cs.i < Len(r.frames)
             THEN DoSend(MsgFrame(frame_meta_index(r.frames, cs.i)), NeedsFrame(cs.i))
             ELSE DoPanic
    ELSE IF cs.k = "NeedsGifMeta" THEN DoSend(MsgGif, NeedsGif)
    ELSE IF cs.k = "Complete" THEN complete_arm(r)
    ELSE DoBreak

\* Addr::try_send: the mailbox's answer
try_send(act, mb) ==
    IF act # "running" THEN "Closed"
    ELSE IF Len(mb) >= MailboxCap THEN "Full"
    ELSE "Ok"

\* Ok(()) => *cs = next_cs  (server.rs:476); the message is in the mailbox
on_ok(st, m) ==
    [st EXCEPT !.cs = m.next,
               !.mailbox = Append(st.mailbox, m.msg),
               !.sent = Append(st.sent, m.msg)]

\* variant: a full mailbox is treated like a delivery, the state advances
on_full_advance(st, m) == [st EXCEPT !.cs = m.next]

\* Err(SendError::Full(_)) => break  (server.rs:477-480)
on_full(st, m) == st

\* Err(SendError::Closed(_)) => break  (server.rs:481-485, "TODO: unregister?")
on_closed(st, m) == st

\* st = [cs, mailbox, sent, panic]: the loop of update_client
RECURSIVE update_client(_, _, _)
update_client(st, act, r) ==
    LET m == client_match(st.cs, r) IN
    IF m.do = "continue" THEN update_client([st EXCEPT !.cs = m.next], act, r)
    ELSE IF m.do = "break" THEN st
    ELSE IF m.do = "panic" THEN [st EXCEPT !.panic = TRUE]
    ELSE LET res == try_send(act, st.mailbox) IN
         IF res = "Ok" THEN update_client(on_ok(st, m), act, r)
         ELSE IF res = "Full" THEN on_full(st, m)
         ELSE on_closed(st, m)

\* update_client on consumer c in the current state
ClientPass(c) ==
    update_client([cs |-> clients[c], mailbox |-> mailbox[c], sent |-> sent[c],
                   panic |-> FALSE], actor[c], render)

(***************************************************************************)
(* reset_job (server.rs:356-406).                                          *)
(***************************************************************************)
\* variant: consumers that had completed the previous job are not reset
reset_clients_skip_complete(cl) ==
    [c \in Clients |-> IF cl[c] \in {Absent, Complete} THEN cl[c] ELSE NeedsConfig]

\* variant: every slot of the map is set to NeedsConfig, registered or not
reset_clients_all(cl) == [c \in Clients |-> NeedsConfig]

\* variant: the consumers keep the state they had under the previous job
reset_clients_keep(cl) == cl

\* "Reset clients to receive the new job config" (server.rs:402-404)
reset_clients(cl) == [c \in Clients |-> IF cl[c] = Absent THEN Absent ELSE NeedsConfig]

\* state.render = RenderStatus { job, frames: vec![], gif: None } (server.rs:400)
reset_render(job) == [job |-> job, frames |-> <<>>, gif |-> NoGif]

\* variant: the controller keeps listening on the receiver it already has
new_frame_rx_keep(old, id) == IF old # 0 THEN old ELSE id

\* frame_rx = Some(reset_job(..)) (server.rs:277, 292): the receiver of the
\* channel made for the new Job replaces the old receiver, which is dropped
new_frame_rx(old, id) == id

\* variant: the render thread leaves out the last frame of the Job
spawn_thread_short(job) ==
    [st |-> "run", todo |-> 0..(job.total_frames - 2), parallel |-> job.parallel]

\* the render thread spawned for the Job (server.rs:362, 379)
spawn_thread(job) ==
    [st |-> "run", todo |-> 0..(job.total_frames - 1), parallel |-> job.parallel]

\* the frames queued in a channel go with its receiver
drop_receiver(ch, rx) == [j \in JobIds |-> IF j = rx THEN ch[j] ELSE <<>>]

\* one lock acquisition: the whole of reset_job, and the assignment to frame_rx
ResetJob(job) ==
    /\ thr' = [thr EXCEPT ![job.id] = spawn_thread(job)]
    /\ render' = reset_render(job)
    /\ clients' = reset_clients(clients)
    /\ frame_rx' = new_frame_rx(frame_rx, job.id)
    /\ chan' = drop_receiver(chan, frame_rx')
    /\ sent' = [c \in Clients |-> <<>>]

(***************************************************************************)
(* render_gif (server.rs:427-438): the frames are encoded in the order of  *)
(* raws.sort_by_key(idx), a stable sort.                                   *)
(***************************************************************************)
RECURSIVE insert_by_key(_, _)
insert_by_key(sorted, x) ==
    IF sorted = <<>> THEN <<x>>
    ELSE IF x < Head(sorted) THEN <<x>> \o sorted
    ELSE <<Head(sorted)>> \o insert_by_key(Tail(sorted), x)

RECURSIVE sort_by_key(_)
sort_by_key(idxs) ==
    IF idxs = <<>> THEN <<>>
    ELSE insert_by_key(sort_by_key(SubSeq(idxs, 1, Len(idxs) - 1)), idxs[Len(idxs)])

\* variant: no gif is built
render_gif_skip(r) == r

\* variant: the frames are encoded in the order of the list
render_gif_unsorted(r) ==
    [r EXCEPT !.gif = [some |-> TRUE, job |-> r.job.id,
                       order |-> [k \in 1..Len(r.frames) |-> r.frames[k].idx]]]

render_gif(r) ==
    [r EXCEPT !.gif = [some |-> TRUE, job |-> r.job.id,
                       order |-> sort_by_key([k \in 1..Len(r.frames) |-> r.frames[k].idx])]]

(***************************************************************************)
(* The controller thread: the loop of main (server.rs:267-339).            *)
(***************************************************************************)
\* variant: the controller never sees the flag set
should_stop_load_never(flag) == FALSE

\* let should_stop = || should_stop_bool.load(Ordering::SeqCst) (server.rs:254)
should_stop_load(flag) == flag

\* if should_stop() { return }  (server.rs:268-271); returning drops frame_rx
CtlLoop ==
    /\ pc = "loop"
    /\ IF should_stop_load(should_stop)
       THEN /\ pc' = "exit"
            /\ frame_rx' = 0
            /\ chan' = drop_receiver(chan, 0)
       ELSE /\ pc' = "drain"
            /\ UNCHANGED <<frame_rx, chan>>
    /\ UNCHANGED <<clients, job_q, render, njobs, needs_gif, thr, actor, mailbox,
                   sent, should_stop, ws_log, rb>>

\* variant: a Job is taken only when no frame channel is open
job_rx_ready_idle(q, rx) == q # <<>> /\ rx = 0

\* job_rx.try_recv() is Ok(job), recv(job_rx) is ready (server.rs:275-276,
\* 289-291): a Job is in the channel, whatever the frame channel holds
job_rx_ready(q, rx) == q # <<>>

\* "Drain any incoming jobs" (server.rs:274-285): one try_recv
CtlDrain ==
    /\ pc = "drain"
    /\ IF job_rx_ready(job_q, frame_rx)
       THEN /\ ResetJob(Head(job_q))
            /\ job_q' = Tail(job_q)
            /\ pc' = "drain"
       ELSE /\ pc' = "select"
            /\ UNCHANGED <<clients, job_q, render, frame_rx, thr, chan, sent>>
    /\ UNCHANGED <<njobs, needs_gif, actor, mailbox, should_stop, ws_log, rb>>

\* select!: recv(job_rx) (server.rs:289-299)
CtlSelectJob ==
    /\ pc = "select"
    /\ job_rx_ready(job_q, frame_rx)
    /\ ResetJob(Head(job_q))
    /\ job_q' = Tail(job_q)
    /\ pc' = "update"
    /\ UNCHANGED <<njobs, needs_gif, actor, mailbox, should_stop, ws_log, rb>>

\* select!: recv(frame_rx) -> Ok((idx, w, h, raw)) (server.rs:301-312)
CtlSelectFrame ==
    /\ pc = "select"
    /\ frame_rx # 0
    /\ chan[frame_rx] # <<>>
    /\ render' = [render EXCEPT !.frames = Append(@, Head(chan[frame_rx]))]
    /\ chan' = [chan EXCEPT ![frame_rx] = Tail(@)]
    /\ pc' = "update"
    /\ UNCHANGED <<clients, job_q, njobs, frame_rx, needs_gif, thr, actor, mailbox,
                   sent, should_stop, ws_log, rb>>

\* select!: recv(frame_rx) -> Err(RecvError) (server.rs:313-316): the channel
\* is empty and its sender, the render thread, is gone
CtlSelectFramesDone ==
    /\ pc = "select"
    /\ frame_rx # 0
    /\ chan[frame_rx] = <<>>
    /\ thr[frame_rx].st = "exit"
    /\ frame_rx' = 0
    /\ pc' = "update"
    /\ UNCHANGED <<clients, job_q, render, njobs, needs_gif, thr, chan, actor,
                   mailbox, sent, should_stop, ws_log, rb>>

\* select!: default(100 ms) (server.rs:320): nothing was ready for 100 ms
CtlSelectTimeout ==
    /\ pc = "select"
    /\ ~job_rx_ready(job_q, frame_rx)
    /\ frame_rx # 0 => (chan[frame_rx] = <<>> /\ thr[frame_rx].st # "exit")
    /\ pc' = "update"
    /\ UNCHANGED <<clients, job_q, render, njobs, frame_rx, needs_gif, thr, chan,
                   actor, mailbox, sent, should_stop, ws_log, rb>>

\* thread_state.with(|ts| update_clients(ts, ..)) (server.rs:324, 440-444):
\* one pass over every registered consumer, under one lock acquisition.  A
\* panic in the pass (frames indexed out of bounds) ends the thread.
CtlUpdateClients ==
    /\ pc = "update"
    /\ LET res == [c \in Clients |-> ClientPass(c)] IN
       /\ clients' = [c \in Clients |-> res[c].cs]
       /\ mailbox' = [c \in Clients |-> res[c].mailbox]
       /\ sent' = [c \in Clients |-> res[c].sent]
       /\ IF \E c \in Clients : res[c].panic
          THEN /\ pc' = "panicked"
               /\ frame_rx' = 0
               /\ chan' = drop_receiver(chan, 0)
          ELSE /\ pc' = "needs_gif"
               /\ UNCHANGED <<frame_rx, chan>>
    /\ UNCHANGED <<job_q, render, njobs, needs_gif, thr, actor, should_stop,
                   ws_log, rb>>

\* let needs_gif = ... (server.rs:326-328)
CtlNeedsGif ==
    /\ pc = "needs_gif"
    /\ needs_gif' = (Len(render.frames) = render.job.total_frames /\ ~render.gif.some)
    /\ pc' = IF needs_gif' THEN "render_gif" ELSE "loop"
    /\ UNCHANGED <<clients, job_q, render, njobs, frame_rx, thr, chan, actor,
                   mailbox, sent, should_stop, ws_log, rb>>

\* if needs_gif { thread_state.with(render_gif) } (server.rs:333-337)
CtlRenderGif ==
    /\ pc = "render_gif"
    /\ needs_gif
    /\ render' = render_gif(render)
    /\ needs_gif' = FALSE
    /\ pc' = "loop"
    /\ UNCHANGED <<clients, job_q, njobs, frame_rx, thr, chan, actor, mailbox,
                   sent, should_stop, ws_log, rb>>

(***************************************************************************)
(* The render thread of a Job (server.rs:359-399).  Per-block, the frames  *)
(* are rendered one after the other in index order; per-frame, they are    *)
(* all submitted at once and taken from FuturesUnordered in the order the  *)
(* backend completes them.                                                 *)
(***************************************************************************)
SetMin(S) == CHOOSE x \in S : \A y \in S : x <= y

\* variant: a per-block thread hands its frames over in any order
next_frames_any(t) == t.todo

\* the frames the thread may hand over next
next_frames(t) == IF t.parallel = "per-block" THEN {SetMin(t.todo)} ELSE t.todo

\* variant: a send on a channel whose receiver was dropped succeeds
frame_tx_send_always(rx, j) == "Ok"

\* frame_tx.send(..) (server.rs:367, 388): Err(SendError) when the receiver
\* of the Job's channel has been dropped
frame_tx_send(rx, j) == IF rx = j THEN "Ok" ELSE "SendError"

\* frame_tx.send((idx, ..)) (server.rs:367-373, 388-394): the send fails,
\* and the thread returns, when the receiver has been dropped
RenderSend(j) ==
    /\ thr[j].st = "run"
    /\ thr[j].todo # {}
    /\ \E idx \in next_frames(thr[j]) :
          IF frame_tx_send(frame_rx, j) = "Ok"
          THEN /\ chan' = [chan EXCEPT ![j] = Append(@, [idx |-> idx, job |-> j])]
               /\ thr' = [thr EXCEPT ![j].todo = @ \ {idx}]
          ELSE /\ thr' = [thr EXCEPT ![j].st = "exit"]
               /\ UNCHANGED chan
    /\ UNCHANGED <<clients, job_q, render, njobs, pc, frame_rx, needs_gif, actor,
                   mailbox, sent, should_stop, ws_log, rb>>

\* the loop over the frames ends, the thread returns and frame_tx is dropped
RenderExit(j) ==
    /\ thr[j].st = "run"
    /\ thr[j].todo = {}
    /\ thr' = [thr EXCEPT ![j].st = "exit"]
    /\ UNCHANGED <<clients, job_q, render, njobs, pc, frame_rx, needs_gif, chan,
                   actor, mailbox, sent, should_stop, ws_log, rb>>

(***************************************************************************)
(* The websocket actor of a consumer (server.rs:142-215).                  *)
(***************************************************************************)
\* assert!(prev.is_none()) (server.rs:174), assert!(prev.is_some())
\* (server.rs:181): the actor goes on, or panics
assert_then(cond, then) == IF cond THEN then ELSE "panicked"

\* Actor::started (server.rs:169-175): the entry is inserted, then the
\* assertion on the entry it replaced is made
WsStarted(c) ==
    /\ ~should_stop
    /\ actor[c] = "none"
    /\ actor' = [actor EXCEPT ![c] = assert_then(clients[c] = Absent, "running")]
    /\ clients' = [clients EXCEPT ![c] = NeedsConfig]
    /\ mailbox' = [mailbox EXCEPT ![c] = <<>>]
    /\ sent' = [sent EXCEPT ![c] = <<>>]
    /\ UNCHANGED <<job_q, render, njobs, pc, frame_rx, needs_gif, thr, chan,
                   should_stop, ws_log, rb>>

\* Handler<MyMsg>::handle (server.rs:145-163): the head of the mailbox is
\* written to the websocket
WsHandleMsg(c) ==
    /\ actor[c] = "running"
    /\ mailbox[c] # <<>>
    /\ mailbox' = [mailbox EXCEPT ![c] = Tail(@)]
    /\ UNCHANGED <<clients, job_q, render, njobs, pc, frame_rx, needs_gif, thr,
                   chan, actor, sent, should_stop, ws_log, rb>>

\* StreamHandler::handle, ws::Message::Text (server.rs:198-207), for a text
\* that parses: Ok(j) => j, then job_tx.send(job)
WsText(c) ==
    /\ actor[c] = "running"
    /\ njobs < MaxJobs
    /\ \E text \in Texts :
          LET r == from_str(text, njobs + 1) IN
          /\ r.ok
          /\ job_q' = Append(job_q, r.job)
          /\ njobs' = njobs + 1
    /\ UNCHANGED <<clients, render, pc, frame_rx, needs_gif, thr, chan, actor,
                   mailbox, sent, should_stop, ws_log, rb>>

\* variant: a text that does not parse submits the default Job
on_parse_error_submit(q) == Append(q, DefaultJob)

\* what the handler sends on job_tx for a text that does not parse: nothing
on_parse_error(q) == q

\* the same handler for a text that does not parse: Err(e) => { println!; return }
\* (server.rs:201-204).  The step changes nothing but the log.
WsTextRejected(c) ==
    /\ actor[c] = "running"
    /\ \E text \in Texts :
          /\ ~from_str(text, njobs + 1).ok
          /\ job_q' = on_parse_error(job_q)
          /\ ws_log' = TRUE
    /\ UNCHANGED <<clients, render, njobs, pc, frame_rx, needs_gif, thr, chan,
                   actor, mailbox, sent, should_stop, rb>>

\* ws::Message::Close or a protocol error: ctx.close(None); ctx.stop()
\* (server.rs:190-193, 208-211).  From here on the actor handles no message
\* and what its mailbox held is lost; the model lets try_send see the mailbox
\* as closed from here until `stopping` has run.
WsStop(c) ==
    /\ actor[c] = "running"
    /\ actor' = [actor EXCEPT ![c] = "closed"]
    /\ mailbox' = [mailbox EXCEPT ![c] = <<>>]
    /\ UNCHANGED <<clients, job_q, render, njobs, pc, frame_rx, needs_gif, thr,
                   chan, sent, should_stop, ws_log, rb>>

\* Actor::stopping (server.rs:177-183): the entry is removed, then the
\* assertion on the entry removed is made
WsStopping(c) ==
    /\ actor[c] = "closed"
    /\ actor' = [actor EXCEPT ![c] = assert_then(clients[c] # Absent, "none")]
    /\ clients' = [clients EXCEPT ![c] = Absent]
    /\ mailbox' = [mailbox EXCEPT ![c] = <<>>]
    /\ sent' = [sent EXCEPT ![c] = <<>>]
    /\ UNCHANGED <<job_q, render, njobs, pc, frame_rx, needs_gif, thr, chan,
                   should_stop, ws_log, rb>>

\* set_stop(), after the http server has shut down (server.rs:343-352)
SetStop ==
    /\ ~should_stop
    /\ \A c \in Clients : actor[c] = "none"
    /\ should_stop' = TRUE
    /\ UNCHANGED <<clients, job_q, render, njobs, pc, frame_rx, needs_gif, thr,
                   chan, actor, mailbox, sent, ws_log, rb>>

Controller ==
    \/ CtlLoop
    \/ CtlDrain
    \/ CtlSelectJob
    \/ CtlSelectFrame
    \/ CtlSelectFramesDone
    \/ CtlSelectTimeout
    \/ CtlUpdateClients
    \/ CtlNeedsGif
    \/ CtlRenderGif

RenderThreads == \E j \in JobIds : RenderSend(j) \/ RenderExit(j)

Consumers ==
    \E c \in Clients :
        WsStarted(c) \/ WsHandleMsg(c) \/ WsText(c) \/ WsStop(c) \/ WsStopping(c)

Next == Controller \/ RenderThreads \/ Consumers \/ SetStop

\* The server.  A text message that does not parse changes no state of the
\* program, so Next leaves these steps out; NextWs has them.
Spec == Init /\ [][Next]_vars

\* The server whose consumers stay connected and send texts of every kind.
NextWs ==
    \/ Controller
    \/ RenderThreads
    \/ \E c \in Clients :
           WsStarted(c) \/ WsHandleMsg(c) \/ WsText(c) \/ WsTextRejected(c)

SpecWs == Init /\ [][NextWs]_vars

(***************************************************************************)
(* The block scheduler of the renderer (src/src/render.rs): ImageBlocker   *)
(* and the spiral order built at the start of Renderer::render_frame.      *)
(***************************************************************************)
\* Largest image width and height tried.
MaxDim == 96

\* let block_width = 32; let block_height = 32; (render.rs:36-37)
BlockWidth == 32
BlockHeight == 32

\* the image widths and heights tried: the multiples of the block size up to
\* MaxDim, and the sizes next to them
Dims == {d \in 0..MaxDim : d % BlockWidth \in {0, 1, BlockWidth - 1}}

Min(a, b) == IF a <= b THEN a ELSE b
Max(a, b) == IF a >= b THEN a ELSE b

\* ceil_div (shared.rs:135-137)
ceil_div(x, y) == (x + y - 1) \div y

\* RenderBlock (render.rs:16-21)
RenderBlock(x, y, width, height) == [x |-> x, y |-> y, width |-> width, height |-> height]

\* variant: the end of a block is not clipped to the image
block_end_unclipped(b, size, image_size) == (b + 1) * size

\* x_end and y_end of a block (render.rs:66-67): clipped to the image
block_end(b, size, image_size) == Min((b + 1) * size, image_size)

\* the block ImageBlocker::next makes for block_index (render.rs:61-74)
make_block(r) ==
    LET block_x == r.block_index % r.block_count_x
        block_y == r.block_index \div r.block_count_x
        x == block_x * r.block_width
        y == block_y * r.block_width
        x_end == block_end(block_x, r.block_width, r.image_width)
        y_end == block_end(block_y, r.block_height, r.image_height)
    IN RenderBlock(x, y, x_end - x, y_end - y)

\* ImageBlocker::new (render.rs:35-47), and the locals of render_frame with the
\* channel and the stop flag of the Renderer (render.rs:145-155, 173, 185)
ImageBlocker(image_width, image_height) ==
    [phase |-> "blocks",
     image_width |-> image_width, image_height |-> image_height,
     block_width |-> BlockWidth, block_height |-> BlockHeight,
     block_count_x |-> ceil_div(image_width, BlockWidth),
     block_count_y |-> ceil_div(image_height, BlockHeight),
     block_index |-> 0,
     blocks |-> <<>>,
     points |-> <<>>,
     spiral_blocks |-> <<>>,
     futs |-> <<>>,
     channel |-> <<>>,
     should_stop |-> FALSE,
     polled |-> <<>>,
     last_poll |-> [called |-> FALSE]]

(***************************************************************************)
(* spiral::ChebyshevIterator::new(x, y, max_distance), of the spiral       *)
(* crate: the points at Chebyshev distance less than max_distance of       *)
(* (x, y), the centre first, then ring after ring.                         *)
(***************************************************************************)
ChebyshevRing(cx, cy, k) ==
    [n \in 1..(8 * k) |->
        IF n <= 2 * k THEN <<cx + k, cy - k + n>>
        ELSE IF n <= 4 * k THEN <<cx + k - (n - 2 * k), cy + k>>
        ELSE IF n <= 6 * k THEN <<cx - k, cy + k - (n - 4 * k)>>
        ELSE <<cx - k + (n - 6 * k), cy - k>>]

RECURSIVE ChebyshevRings(_, _, _)
ChebyshevRings(cx, cy, k) ==
    IF k = 0 THEN <<<<cx, cy>>>>
    ELSE ChebyshevRings(cx, cy, k - 1) \o ChebyshevRing(cx, cy, k)

ChebyshevIterator(cx, cy, max_distance) ==
    IF max_distance <= 0 THEN <<>> ELSE ChebyshevRings(cx, cy, max_distance - 1)

\* radius = max(block_count_x, block_count_y) / 2 + 1 (render.rs:170)
spiral_radius(block_count_x, block_count_y) ==
    (Max(block_count_x, block_count_y) \div 2) + 1

\* center_x = block_count_x / 2 - 1 (render.rs:171-172)
spiral_center(block_count) == (block_count \div 2) - 1

\* Iterator::next of ImageBlocker, driven by blocker.collect() (render.rs:54-79,
\* 167).  On None the list of blocks is complete.
BlockerNext ==
    /\ rb.phase = "blocks"
    /\ IF rb.block_index >= rb.block_count_x * rb.block_count_y
       THEN rb' = [rb EXCEPT !.phase = "collected"]
       ELSE rb' = [rb EXCEPT
                !.blocks = Append(@, make_block(rb)),
                !.block_index = @ + 1]
    /\ UNCHANGED serverVars

\* "Set up ChebyshevIterator" (render.rs:169-176)
SpiralSetup ==
    /\ rb.phase = "collected"
    /\ rb' = [rb EXCEPT
             !.phase = "spiral",
             !.points = ChebyshevIterator(spiral_center(rb.block_count_x),
                                          spiral_center(rb.block_count_y),
                                          spiral_radius(rb.block_count_x,
                                                        rb.block_count_y))]
    /\ UNCHANGED serverVars

\* "Block out of bounds, ignore." (render.rs:177-179)
out_of_bounds(p, block_count_x, block_count_y) ==
    p[1] < 0 \/ p[1] >= block_count_x \/ p[2] < 0 \/ p[2] >= block_count_y

\* one turn of the loop over the spiral (render.rs:176-182)
SpiralNext ==
    /\ rb.phase = "spiral"
    /\ IF rb.points = <<>>
       THEN rb' = [rb EXCEPT !.phase = "submit"]
       ELSE LET p == Head(rb.points) IN
            IF out_of_bounds(p, rb.block_count_x, rb.block_count_y)
            THEN rb' = [rb EXCEPT !.points = Tail(@)]
            ELSE rb' = [rb EXCEPT
                     !.points = Tail(@),
                     !.spiral_blocks =
                         Append(@, rb.blocks[p[2] * rb.block_count_x + p[1] + 1])]
    /\ UNCHANGED serverVars

RenderInit ==
    /\ ServerInit
    /\ \E w \in Dims, h \in Dims : rb = ImageBlocker(w, h)

RenderNext == BlockerNext \/ SpiralSetup \/ SpiralNext

\* The renderer scheduling the blocks of one frame, for every image size tried.
SpecRender == RenderInit /\ [][RenderNext]_vars

(***************************************************************************)
(* Rendering the blocks of a frame (render.rs:184-209, 258-296) on the     *)
(* thread pool (main.rs:40-46).                                            *)
(***************************************************************************)
MaxFrameDim == 33

\* the image widths and heights for which whole frames are rendered
FrameDims == {d \in 0..MaxFrameDim : d % BlockWidth \in {0, 1, 2, BlockWidth - 1}}

\* the most blocks along one side of an image of these sizes
BlockCountMax == ceil_div(MaxFrameDim, BlockWidth)

\* the colour of a pixel: the same for every rendering of the pixel (the noise
\* of the random supersampling is left out)
pixel_color(x, y) == (x + 2 * y) % 3

\* PixelResult (render.rs:84-88)
PixelResult(x, y, color) == [x |-> x, y |-> y, color |-> color]

\* Ctx (render.rs:248-256): scene, camera, samples_per_pixel and max_depth are
\* the same in every Ctx of a frame
Ctx(renderblock, image_width, image_height) ==
    [renderblock |-> renderblock, image_width |-> image_width,
     image_height |-> image_height]

\* variant: the row of a pixel is computed with the height of the block
pixel_y_by_height(b, index) == b.y + ((index \div b.height) % b.height)

\* "Compute pixel location" (render.rs:265-268)
pixel_x(b, index) == b.x + (index % b.width)
pixel_y(b, index) == b.y + ((index \div b.width) % b.height)

\* render_block (render.rs:258-296): the pixels of the block, row after row
render_block(ctx) ==
    LET b == ctx.renderblock IN
    [n \in 1..(b.width * b.height) |->
        LET index == n - 1
            x == pixel_x(b, index)
            y == pixel_y(b, index)
        IN PixelResult(x, y, pixel_color(x, y))]

\* ParallelExecutor::execute for ThreadPool (main.rs:44-46): the task f(ctx) is
\* spawned and its handle returned
execute(ctx) == [ctx |-> ctx, st |-> "pending", out |-> <<>>]

\* variant: the task runs on the context of the first submission
run_task_first_ctx(fut) == render_block(rb.futs[1].ctx)

\* the task of a handle: lazy(move |_| f(ctx)) (main.rs:45)
run_task(fut) == render_block(fut.ctx)

\* one turn of "Loop blocks ... and spawn renderblock tasks" (render.rs:186-196)
FrameSubmit ==
    /\ rb.phase = "submit"
    /\ IF Len(rb.futs) = Len(rb.spiral_blocks)
       THEN rb' = [rb EXCEPT !.phase = "collect"]
       ELSE rb' = [rb EXCEPT !.futs =
                Append(@, execute(Ctx(rb.spiral_blocks[Len(rb.futs) + 1],
                                      rb.image_width, rb.image_height)))]
    /\ UNCHANGED serverVars

\* a worker of the pool runs the task of handle k to its end
WorkerRun(k) ==
    /\ k \in 1..Len(rb.futs)
    /\ rb.futs[k].st = "pending"
    /\ rb' = [rb EXCEPT !.futs[k] =
                 [@ EXCEPT !.st = "ready", !.out = run_task(rb.futs[k])]]
    /\ UNCHANGED serverVars

\* the handles the stream has not yielded yet
NotYielded(futs) == {k \in 1..Len(futs) : futs[k].st # "taken"}

\* variant: the stream yields whichever result is ready (the last one pushed
\* first), as FuturesUnordered may
futs_next_unordered(futs) ==
    LET ready == {k \in NotYielded(futs) : futs[k].st \in {"ready", "panicked"}} IN
    IF NotYielded(futs) = {} THEN 0 - 1
    ELSE IF ready = {} THEN 0
    ELSE CHOOSE k \in ready : \A n \in ready : n <= k

\* futs.next() of FuturesOrdered (render.rs:185, 200): the results come in the
\* order the futures were pushed.  The handle to yield now; 0 while the
\* stream waits for it; -1 when the stream has ended.
futs_next(futs) ==
    IF NotYielded(futs) = {} THEN 0 - 1
    ELSE LET k == CHOOSE k \in NotYielded(futs) : \A n \in NotYielded(futs) : k <= n
         IN IF futs[k].st \in {"ready", "panicked"} THEN k ELSE 0

\* variant: the channel has room for the pixels of one full block
channel_capacity_block(image_width, image_height) == BlockWidth * BlockHeight

\* bounded(image_width * image_height) (render.rs:145): the capacity of the
\* channel of pixel results
channel_capacity(image_width, image_height) == image_width * image_height

\* the pixels of a block that channel_sender.send delivers before the channel
\* is full (render.rs:205-207): a send to a full bounded channel blocks
send_room(r) == channel_capacity(r.image_width, r.image_height) - Len(r.channel)

\* one turn of the loop that collects the results (render.rs:199-209).  A task
\* that panicked makes its handle panic in the thread that awaits it; a send
\* to the full channel blocks the thread.
FrameCollect ==
    /\ rb.phase = "collect"
    /\ LET k == futs_next(rb.futs) IN
       /\ k # 0
       /\ IF k < 0 THEN rb' = [rb EXCEPT !.phase = "done"]
          ELSE IF rb.futs[k].st = "panicked" THEN rb' = [rb EXCEPT !.phase = "panic"]
          ELSE IF rb.should_stop
          THEN rb' = [rb EXCEPT !.phase = "done", !.futs[k].st = "taken"]
          ELSE IF Len(rb.futs[k].out) > send_room(rb)
          THEN rb' = [rb EXCEPT !.phase = "blocked", !.futs[k].st = "taken",
                                !.channel = @ \o SubSeq(rb.futs[k].out, 1, send_room(rb))]
          ELSE rb' = [rb EXCEPT !.futs[k].st = "taken",
                                !.channel = @ \o rb.futs[k].out]
    /\ UNCHANGED serverVars

\* Renderer::stop (render.rs:242-244), called while the frame is rendered
FrameStop ==
    /\ rb.phase \in {"submit", "collect"}
    /\ ~rb.should_stop
    /\ rb' = [rb EXCEPT !.should_stop = TRUE]
    /\ UNCHANGED serverVars

FrameInit ==
    /\ ServerInit
    /\ \E w \in FrameDims, h \in FrameDims : rb = ImageBlocker(w, h)

FrameNext ==
    \/ BlockerNext
    \/ SpiralSetup
    \/ SpiralNext
    \/ FrameSubmit
    \/ \E k \in 1..(BlockCountMax * BlockCountMax) : WorkerRun(k)
    \/ FrameCollect
    \/ FrameStop

\* Renderer::render_frame on the thread pool, for every image size tried.
SpecFrame == FrameInit /\ [][FrameNext]_vars

\* Option<Vec<PixelResult>>
None == [some |-> FALSE, results |-> <<>>]
Some(results) == [some |-> TRUE, results |-> results]

\* the number of pixels one call of poll_results receives (render.rs:226,
\* 230-238): the loop ends when the channel is empty, or when limit, which
\* starts at image_width * image_height in every call, has reached 0
poll_count(r) == Min(Len(r.channel), r.image_width * r.image_height)

\* Renderer::poll_results (render.rs:224-240).  polled are the pixels all
\* calls have returned so far and last_poll what the last call saw and
\* returned.
PollResults ==
    /\ rb.phase \in {"blocks", "collected", "spiral", "submit", "collect", "done"}
    /\ IF rb.should_stop
       THEN rb' = [rb EXCEPT !.last_poll =
                      [called |-> TRUE, stopped |-> TRUE, channel |-> rb.channel,
                       result |-> None]]
       ELSE LET n == poll_count(rb)
                results == SubSeq(rb.channel, 1, n)
            IN rb' = [rb EXCEPT
                   !.channel = SubSeq(@, n + 1, Len(@)),
                   !.polled = @ \o results,
                   !.should_stop = (n > 0 /\ n = rb.image_width * rb.image_height),
                   !.last_poll =
                      [called |-> TRUE, stopped |-> FALSE, channel |-> rb.channel,
                       result |-> Some(results)]]
    /\ UNCHANGED serverVars

PollNext == FrameNext \/ PollResults

\* Renderer::render_frame on one thread and poll_results, called at any time
\* and any number of times, on another.
SpecPoll == FrameInit /\ [][PollNext]_vars

\* the task of handle k never resolves (a worker that is lost, a remote
\* backend that does not answer) or panics (a worker that crashes)
WorkerFault(k) ==
    /\ k \in 1..Len(rb.futs)
    /\ rb.futs[k].st = "pending"
    /\ \E outcome \in {"lost", "panicked"} :
          rb' = [rb EXCEPT !.futs[k].st = outcome]
    /\ UNCHANGED serverVars

FaultNext ==
    \/ FrameNext
    \/ \E k \in 1..(BlockCountMax * BlockCountMax) : WorkerFault(k)

\* Renderer::render_frame on a backend whose submissions may fail; every
\* thread that can take a step eventually takes one.
SpecFault == FrameInit /\ [][FaultNext]_vars /\ WF_vars(FaultNext)

(***************************************************************************)
(* Assembling a frame from the results of its blocks: render_frame_parallel *)
(* (server.rs:419-425) folds the stream of (renderblock, result_img) into   *)
(* the image.  The stream is that of Renderer::render_frame_parallel: one   *)
(* item for every block submitted, arriving in any order.                   *)
(***************************************************************************)
\* image::RgbImage::new(width, height) (server.rs:420): all pixels black
RgbImage(width, height) ==
    [width |-> width, height |-> height,
     px |-> [p \in (0..(width - 1)) \X (0..(height - 1)) |-> 0]]

\* the image a block renders to: its pixels, at their place within the block
result_img(renderblock) ==
    [width |-> renderblock.width, height |-> renderblock.height,
     px |-> [p \in (0..(renderblock.width - 1)) \X (0..(renderblock.height - 1)) |->
               pixel_color(renderblock.x + p[1], renderblock.y + p[2])]]

\* variant: every block is copied to the origin of the image
copy_offset_origin(renderblock) == <<0, 0>>

\* where a block's image is copied to: renderblock.x, renderblock.y (server.rs:422)
copy_offset(renderblock) == <<renderblock.x, renderblock.y>>

\* GenericImage::copy_from(&other, x, y) (server.rs:422): an error when other
\* does not fit at (x, y), else the pixels of other replace those of img there
copy_from(img, other, x, y) ==
    IF img.width < other.width + x \/ img.height < other.height + y
    THEN [ok |-> FALSE, img |-> img]
    ELSE [ok |-> TRUE,
          img |-> [img EXCEPT !.px =
                     [p \in DOMAIN img.px |->
                        IF /\ x <= p[1] /\ p[1] < x + other.width
                           /\ y <= p[2] /\ p[2] < y + other.height
                        THEN other.px[<<p[1] - x, p[2] - y>>]
                        ELSE img.px[p]]]]

\* the closure of the fold (server.rs:421-424): copy the block, or panic on unwrap
fold_step(img, renderblock) ==
    LET o == copy_offset(renderblock) IN
    copy_from(img, result_img(renderblock), o[1], o[2])

\* render_frame_parallel is called for the blocks of the frame (server.rs:420-421)
AssembleStart ==
    /\ rb.phase = "submit"
    /\ rb' = [phase |-> "assemble",
              image_width |-> rb.image_width, image_height |-> rb.image_height,
              spiral_blocks |-> rb.spiral_blocks,
              arrived |-> <<>>,
              img |-> RgbImage(rb.image_width, rb.image_height)]
    /\ UNCHANGED serverVars

\* the stream yields the result of block k, one that has not arrived yet, and
\* the fold copies it into the image
AssembleBlock(k) ==
    /\ rb.phase = "assemble"
    /\ k \in 1..Len(rb.spiral_blocks)
    /\ \A n \in 1..Len(rb.arrived) : rb.arrived[n] # k
    /\ LET r == fold_step(rb.img, rb.spiral_blocks[k]) IN
       IF r.ok
       THEN rb' = [rb EXCEPT !.img = r.img, !.arrived = Append(@, k)]
       ELSE rb' = [rb EXCEPT !.phase = "panic"]
    /\ UNCHANGED serverVars

\* the stream has ended: the future of render_frame_parallel resolves to the image
AssembleDone ==
    /\ rb.phase = "assemble"
    /\ Len(rb.arrived) = Len(rb.spiral_blocks)
    /\ rb' = [rb EXCEPT !.phase = "assembled"]
    /\ UNCHANGED serverVars

AssembleNext ==
    \/ BlockerNext
    \/ SpiralSetup
    \/ SpiralNext
    \/ AssembleStart
    \/ \E k \in 1..(BlockCountMax * BlockCountMax) : AssembleBlock(k)
    \/ AssembleDone

\* A frame assembled from its blocks, for every image size tried and every
\* order of arrival.
SpecAssemble == FrameInit /\ [][AssembleNext]_vars

(***************************************************************************)
(* Tracing a ray: ray_color (render.rs:91-122), Scene::intersect           *)
(* (scene.rs:49-77), Material::scatter (material.rs:17-23).  A ray is one  *)
(* of MaxRays rays; a colour is a triple of integers, in units of 1/200;   *)
(* an albedo is in tenths.  What is random in the code (the direction of a *)
(* scattered ray) is an input here: scatter_to says which ray a ray        *)
(* scatters to.                                                            *)
(***************************************************************************)
MaxRays == 3
MaxDepth == 2

Rays == 1..MaxRays

\* Color::ZERO (render.rs:93)
ZERO == <<0, 0, 0>>

\* attenuation * colour, component by component (render.rs:111-112)
color_mul(attenuation, color) ==
    [i \in 1..3 |-> (attenuation[i] * color[i]) \div 10]

\* ray.direction.normalize().y (render.rs:119), in tenths: between -10 and 10
unit_y(ray) == ((ray * 10) % 21) - 10

\* variant: the background is white whatever the ray
background_white(ray) == <<200, 200, 200>>

\* "Background" (render.rs:119-121): t = 0.5 * (y + 1), and
\* (1 - t) * (1.0, 1.0, 1.0) + t * (0.5, 0.7, 1.0)
background(ray) ==
    LET t20 == unit_y(ray) + 10 IN
    <<(20 - t20) * 10 + t20 * 5, (20 - t20) * 10 + t20 * 7, (20 - t20) * 10 + t20 * 10>>

\* the spheres scenes are made of: the rays whose line crosses the sphere's
\* bounds, those that hit the sphere, the distance of the hit, the material
Sphere(bounds, hits, t, material, albedo, at_t_max) ==
    [bounds |-> bounds, hits |-> hits, t |-> t, material |-> material,
     albedo |-> albedo, at_t_max |-> at_t_max]

\* the third sphere is hit at the distance of the second, and its intersect
\* accepts a hit at t_max itself
SphereCatalogue ==
    <<Sphere({1, 2}, {1, 2}, 5, "lambertian", <<4, 2, 1>>, FALSE),
      Sphere({1, 2, 3}, {2, 3}, 3, "metal", <<7, 6, 5>>, FALSE),
      Sphere({1, 2, 3}, {2, 3}, 3, "dielectric", <<10, 10, 10>>, TRUE)>>

\* a hittable that is not a sphere (Box<dyn RayHittable>, scene.rs:9)
OtherHittable == Sphere({1, 2, 3}, {1, 3}, 4, "lambertian", <<1, 1, 9>>, FALSE)

\* Scene (scene.rs:7-19); bvh is whether the BVH has been built
Scene(objects_other, objects_sphere, bounds, bvh) ==
    [objects_other |-> objects_other, objects_sphere |-> objects_sphere,
     bounds |-> bounds, bvh |-> bvh]

\* Scene::new (scene.rs:22-29), with the objects pushed (scene.rs:31-34)
scene_new(objects_other, objects_sphere) ==
    Scene(objects_other, objects_sphere, <<>>, FALSE)

\* hittable.compute_bounds(i) (scene.rs:39, 42): the bounds of the object,
\* with hittable_index = i; `of` is the object the bounds were computed from
compute_bounds(obj, i) == [hittable_index |-> i, rays |-> obj.bounds, of |-> obj]

\* Scene::build_bvh (scene.rs:36-46): the bounds of objects_other, each with
\* its position in objects_other, then those of objects_sphere, each with its
\* position in objects_sphere, are pushed on self.bounds
build_bvh(scene) ==
    [scene EXCEPT
        !.bounds = @ \o [i \in 1..Len(scene.objects_other) |->
                            compute_bounds(scene.objects_other[i], i - 1)]
                     \o [i \in 1..Len(scene.objects_sphere) |->
                            compute_bounds(scene.objects_sphere[i], i - 1)],
        !.bvh = TRUE]

\* the scenes traced: spheres added in any order, build_bvh called or not
Scenes ==
    {IF b THEN build_bvh(scene_new(<<>>, os)) ELSE scene_new(<<>>, os) :
         b \in BOOLEAN,
         os \in {<<>>, <<SphereCatalogue[1]>>, <<SphereCatalogue[2]>>,
                 <<SphereCatalogue[1], SphereCatalogue[2]>>,
                 <<SphereCatalogue[2], SphereCatalogue[1]>>}}

\* Option<HitRecord>
NoHit == [some |-> FALSE, t |-> 0, material |-> "none", albedo |-> ZERO]
SomeHit(obj) == [some |-> TRUE, t |-> obj.t, material |-> obj.material, albedo |-> obj.albedo]

\* RayQuery.t_max (render.rs:97-101): TRACE_INFINITY, or a distance
TMaxInfinity == [inf |-> TRUE, t |-> 0]
TMin(t_max, t) == IF t_max.inf \/ t < t_max.t THEN [inf |-> FALSE, t |-> t] ELSE t_max

\* Sphere::intersect(query) (scene.rs:60): a hit between t_min and t_max
obj_intersect(obj, ray, t_max) ==
    IF /\ ray \in obj.hits
       /\ obj.t > 0
       /\ (t_max.inf \/ obj.t < t_max.t \/ (obj.at_t_max /\ obj.t = t_max.t))
    THEN SomeHit(obj) ELSE NoHit

\* bvh.traverse_iterator(&bvh_ray, &self.bounds) (scene.rs:55): the bounds
\* the ray crosses
hit_bounds(scene, ray) == SelectSeq(scene.bounds, LAMBDA b : ray \in b.rays)

\* the search of Scene::intersect: the query's t_max, the closest hit so far,
\* and whether indexing objects_sphere has panicked
SearchState(t_max, closest_hit_option, panic) ==
    [t_max |-> t_max, closest_hit_option |-> closest_hit_option, panic |-> panic]

\* variant: a hit at the distance of the closest hit replaces it
closer_or_equal(hit, closest_hit) == hit.t <= closest_hit.t

\* if hit.t < closest_hit.t (scene.rs:70)
closer(hit, closest_hit) == hit.t < closest_hit.t

\* one round of "Iterate over hit objects to find closest" (scene.rs:58-74)
intersect_step(scene, ray, st, bounds) ==
    IF bounds.hittable_index >= Len(scene.objects_sphere)
    THEN SearchState(st.t_max, st.closest_hit_option, TRUE)
    ELSE LET obj == scene.objects_sphere[bounds.hittable_index + 1]
             hit_option == obj_intersect(obj, ray, st.t_max)
         IN SearchState(
                IF hit_option.some THEN TMin(st.t_max, hit_option.t) ELSE st.t_max,
                IF ~st.closest_hit_option.some THEN hit_option
                ELSE IF hit_option.some /\ closer(hit_option, st.closest_hit_option)
                THEN hit_option
                ELSE st.closest_hit_option,
                FALSE)

RECURSIVE intersect_loop(_, _, _, _)
intersect_loop(scene, ray, hit_bounds_left, st) ==
    IF hit_bounds_left = <<>> \/ st.panic THEN st
    ELSE intersect_loop(scene, ray, Tail(hit_bounds_left),
                        intersect_step(scene, ray, st, Head(hit_bounds_left)))

\* Scene::intersect (scene.rs:49-77): without a BVH the loop is skipped and
\* the initial None is returned.  The scenes traced hold spheres only, where
\* the index is always within objects_sphere.
intersect(scene, ray) ==
    IF scene.bvh
    THEN intersect_loop(scene, ray, hit_bounds(scene, ray),
                        SearchState(TMaxInfinity, NoHit, FALSE)).closest_hit_option
    ELSE NoHit

\* Material::scatter (material.rs:17-23) returns an Option.  The materials of
\* material.rs always scatter, with their albedo as attenuation (Dielectric
\* with (1.0, 1.0, 1.0)); another implementation of the trait may absorb the
\* ray, which is scatter_to[ray] = 0
scatter(hit, ray, scatter_to) ==
    [some |-> scatter_to[ray] # 0,
     attenuation |-> IF hit.material = "dielectric" THEN <<10, 10, 10>> ELSE hit.albedo,
     scattered_ray |-> scatter_to[ray]]

\* variant: an absorbed ray gets the colour of the background
on_absorbed_background(ray) == background(ray)

\* the hit did not scatter: return Color::ZERO (render.rs:115)
on_absorbed(ray) == ZERO

\* variant: a depth of zero still traces
depth_exhausted_below_zero(depth) == depth < 0

\* if depth <= 0 (render.rs:92)
depth_exhausted(depth) == depth <= 0

\* ray_color (render.rs:91-122): the colour, the intersection queries made
\* (ray_count) and the calls of ray_color made
RECURSIVE ray_color(_, _, _, _)
ray_color(ray, scene, depth, scatter_to) ==
    IF depth_exhausted(depth) THEN [color |-> ZERO, ray_count |-> 0, calls |-> 1]
    ELSE LET hit_option == intersect(scene, ray) IN
         IF hit_option.some
         THEN LET scatter_option == scatter(hit_option, ray, scatter_to) IN
              IF scatter_option.some
              THEN LET rest == ray_color(scatter_option.scattered_ray, scene,
                                         depth - 1, scatter_to)
                   IN [color |-> color_mul(scatter_option.attenuation, rest.color),
                       ray_count |-> rest.ray_count + 1,
                       calls |-> rest.calls + 1]
              ELSE [color |-> on_absorbed(ray), ray_count |-> 1, calls |-> 1]
         ELSE [color |-> background(ray), ray_count |-> 1, calls |-> 1]

\* a ray, a scene and a depth to trace with
TraceInit ==
    /\ ServerInit
    /\ \E ray \in Rays, scene \in Scenes, depth \in 0..MaxDepth,
          scatter_to \in [Rays -> {0} \cup Rays] :
          rb = [phase |-> "call", ray |-> ray, scene |-> scene, depth |-> depth,
                scatter_to |-> scatter_to]

\* ray_color is called (render.rs:283-284)
TraceRayColor ==
    /\ rb.phase = "call"
    /\ rb' = [phase |-> "traced", ray |-> rb.ray, scene |-> rb.scene,
              depth |-> rb.depth, scatter_to |-> rb.scatter_to,
              result |-> ray_color(rb.ray, rb.scene, rb.depth, rb.scatter_to)]
    /\ UNCHANGED serverVars

\* scene.intersect is called (render.rs:102)
TraceIntersect ==
    /\ rb.phase = "call"
    /\ rb' = [phase |-> "intersected", ray |-> rb.ray, scene |-> rb.scene,
              depth |-> rb.depth, scatter_to |-> rb.scatter_to,
              hit_option |-> intersect(rb.scene, rb.ray)]
    /\ UNCHANGED serverVars

TraceNext == TraceRayColor \/ TraceIntersect

\* Tracing one ray, for every ray, scene and depth tried.
SpecTrace == TraceInit /\ [][TraceNext]_vars

(***************************************************************************)
(* Scene::intersect round by round (scene.rs:49-77), on scenes that may    *)
(* also hold a hittable that is not a sphere.                              *)
(***************************************************************************)
\* the lists of distinct spheres of the catalogue
SphereLists ==
    {[k \in 1..Len(f) |-> SphereCatalogue[f[k]]] :
         f \in {g \in UNION {[1..n -> 1..Len(SphereCatalogue)] : n \in 0..Len(SphereCatalogue)} :
                    \A a, b \in DOMAIN g : a # b => g[a] # g[b]}}

SearchScenes ==
    {IF b THEN build_bvh(scene_new(oo, os)) ELSE scene_new(oo, os) :
         b \in BOOLEAN, oo \in {<<>>, <<OtherHittable>>}, os \in SphereLists}

SearchInit ==
    /\ ServerInit
    /\ \E ray \in Rays, scene \in SearchScenes :
          rb = [phase |-> "query", ray |-> ray, scene |-> scene]

\* let mut closest_hit_option = None; if let Some(bvh) = &self.bvh
\* (scene.rs:50-55)
SearchStart ==
    /\ rb.phase = "query"
    /\ rb' = IF rb.scene.bvh
             THEN [phase |-> "search", ray |-> rb.ray, scene |-> rb.scene,
                   left |-> hit_bounds(rb.scene, rb.ray), seen |-> <<>>,
                   st |-> SearchState(TMaxInfinity, NoHit, FALSE)]
             ELSE [phase |-> "found", ray |-> rb.ray, scene |-> rb.scene,
                   seen |-> <<>>, result |-> NoHit]
    /\ UNCHANGED serverVars

\* one round of the loop over hit_bounds (scene.rs:58-74)
SearchStep ==
    /\ rb.phase = "search"
    /\ rb.left # <<>>
    /\ ~rb.st.panic
    /\ rb' = [rb EXCEPT !.st = intersect_step(rb.scene, rb.ray, rb.st, Head(rb.left)),
                        !.left = Tail(rb.left),
                        !.seen = Append(rb.seen, Head(rb.left))]
    /\ UNCHANGED serverVars

\* return closest_hit_option (scene.rs:76), or the panic of the index
SearchDone ==
    /\ rb.phase = "search"
    /\ rb.left = <<>> \/ rb.st.panic
    /\ rb' = [phase |-> IF rb.st.panic THEN "panicked" ELSE "found",
              ray |-> rb.ray, scene |-> rb.scene, seen |-> rb.seen,
              result |-> rb.st.closest_hit_option]
    /\ UNCHANGED serverVars

SearchNext == SearchStart \/ SearchStep \/ SearchDone

\* Scene::intersect for every ray and scene tried.
SpecSearch == SearchInit /\ [][SearchNext]_vars

(***************************************************************************)
(* The mutex of MyServerData (server.rs:101-118) and the statements each   *)
(* thread runs, in the order of the source: taking and releasing the       *)
(* mutex, reading and writing what it guards, waiting, and work that       *)
(* touches no shared state.  A thread is at a label with the statements    *)
(* still to run of the path it took from the label before.                 *)
(***************************************************************************)
Stmt(op, obj) == [op |-> op, obj |-> obj]

\* variant: the closure runs without the mutex
with_unlocked(body) == body

\* MyServerData::with: f(&mut self.inner.lock().unwrap()) (server.rs:115-117)
with(body) == <<Stmt("lock", "inner")>> \o body \o <<Stmt("unlock", "inner")>>

\* MyServerData::lock (server.rs:112-114): the guard is a temporary that is
\* dropped at the end of the statement that took it
lock_guard(body) == <<Stmt("lock", "inner")>> \o body \o <<Stmt("unlock", "inner")>>

\* reset_job(job, &scene, &mut thread_state.lock(), scope, pool)
\* (server.rs:277, 292, 356-406): a channel is made, the render thread is
\* spawned, then state.render and the consumers' states are written
reset_job_call ==
    lock_guard(<<Stmt("local", "channel"), Stmt("spawn", "render thread"),
                 Stmt("write", "render"), Stmt("write", "clients")>>)

Path(stmts, to) == [stmts |-> stmts, to |-> to]

\* the loop of main (server.rs:267-339)
CtlPaths(label) ==
    CASE label = "loop" ->
           {Path(<<Stmt("local", "should_stop")>>, "drain"),
            Path(<<Stmt("local", "should_stop")>>, "exit")}
      [] label = "drain" ->
           {Path(<<Stmt("poll", "job_rx")>> \o reset_job_call, "drain"),
            Path(<<Stmt("poll", "job_rx")>>, "select")}
      [] label = "select" ->
           {Path(<<Stmt("wait", "select")>> \o reset_job_call, "update"),
            Path(<<Stmt("wait", "select"), Stmt("local", "png")>>
                     \o lock_guard(<<Stmt("write", "render")>>), "update"),
            Path(<<Stmt("wait", "select"), Stmt("local", "frame_rx")>>, "update"),
            Path(<<Stmt("wait", "select")>>, "update")}
      [] label = "update" ->
           {Path(with(<<Stmt("read", "render"), Stmt("read", "clients"),
                        Stmt("send", "mailbox"), Stmt("write", "clients")>>), "needs_gif")}
      [] label = "needs_gif" ->
           {Path(with(<<Stmt("read", "render")>>), "loop"),
            Path(with(<<Stmt("read", "render")>>), "render_gif")}
      [] label = "render_gif" ->
           {Path(with(<<Stmt("read", "render"), Stmt("local", "gif"),
                        Stmt("write", "render")>>), "loop")}
      [] OTHER -> {}

\* the websocket actor (server.rs:142-215)
WsPaths(label) ==
    CASE label = "new" ->
           {Path(lock_guard(<<Stmt("write", "clients")>>), "run")}
      [] label = "run" ->
           {Path(<<Stmt("wait", "mailbox"), Stmt("local", "ctx.text")>>, "run"),
            Path(<<Stmt("wait", "stream"), Stmt("local", "from_str")>>, "run"),
            Path(<<Stmt("wait", "stream"), Stmt("local", "from_str")>>
                     \o lock_guard(<<Stmt("read", "job_tx"), Stmt("send", "job_tx")>>),
                 "run"),
            Path(<<Stmt("wait", "stream"), Stmt("local", "ctx.stop")>>, "stopping")}
      [] label = "stopping" ->
           {Path(lock_guard(<<Stmt("write", "clients")>>), "gone")}
      [] OTHER -> {}

\* the render thread of a Job (server.rs:362-375, 379-397)
RenderPaths(label) ==
    CASE label = "run" ->
           {Path(<<Stmt("wait", "backend"), Stmt("send", "frame_tx")>>, "run"),
            Path(<<Stmt("wait", "backend"), Stmt("send", "frame_tx")>>, "exit"),
            Path(<<>>, "exit")}
      [] OTHER -> {}

Threads == {"controller", "actor", "render"}

Paths(th, label) ==
    IF th = "controller" THEN CtlPaths(label)
    ELSE IF th = "actor" THEN WsPaths(label)
    ELSE RenderPaths(label)

At(label, todo) == [label |-> label, todo |-> todo]

LockInit ==
    /\ ServerInit
    /\ rb = [phase |-> "threads",
             holder |-> "none",
             at |-> [th \in Threads |->
                        IF th = "controller" THEN At("loop", <<>>)
                        ELSE IF th = "actor" THEN At("new", <<>>)
                        ELSE At("none", <<>>)],
             last |-> [thread |-> "none", stmt |-> Stmt("local", "start"), held |-> FALSE]]

\* a thread whose statements are done takes one of the paths of its label
LockBranch(th) ==
    /\ rb.phase = "threads"
    /\ rb.at[th].todo = <<>>
    /\ \E p \in Paths(th, rb.at[th].label) :
          rb' = [rb EXCEPT !.at[th] = At(p.to, p.stmts),
                           !.last = [thread |-> th, stmt |-> Stmt("local", "branch"),
                                     held |-> rb.holder = th]]
    /\ UNCHANGED serverVars

\* a thread runs its next statement; Mutex::lock waits until the mutex is free
LockStep(th) ==
    /\ rb.phase = "threads"
    /\ rb.at[th].todo # <<>>
    /\ LET stmt == Head(rb.at[th].todo) IN
       /\ stmt.op = "lock" => rb.holder = "none"
       /\ rb' = [rb EXCEPT
                    !.holder = IF stmt.op = "lock" THEN th
                               ELSE IF stmt.op = "unlock" THEN "none"
                               ELSE @,
                    !.at = [t \in Threads |->
                               IF t = th THEN At(rb.at[th].label, Tail(rb.at[th].todo))
                               ELSE IF t = "render" /\ stmt.op = "spawn" THEN At("run", <<>>)
                               ELSE rb.at[t]],
                    !.last = [thread |-> th, stmt |-> stmt, held |-> rb.holder = th]]
    /\ UNCHANGED serverVars

\* a new connection: ws::start makes a new actor (server.rs:217-221)
LockNewActor ==
    /\ rb.phase = "threads"
    /\ rb.at["actor"] = At("gone", <<>>)
    /\ rb' = [rb EXCEPT !.at["actor"] = At("new", <<>>),
                        !.last = [thread |-> "actor", stmt |-> Stmt("local", "ws::start"),
                                  held |-> FALSE]]
    /\ UNCHANGED serverVars

LockNext ==
    \/ \E th \in Threads : LockBranch(th) \/ LockStep(th)
    \/ LockNewActor

\* The threads of the server and the mutex.
SpecLock == LockInit /\ [][LockNext]_vars

(***************************************************************************)
(* Fairness: the controller thread and the render threads (the backend's   *)
(* workers) keep running.  The server is not shut down.  Consumers are not  *)
(* scheduled fairly: they may submit Jobs at any time, or never.  The      *)
(* first MaxLiveClients consumers take part.                               *)
(***************************************************************************)
MaxLiveClients == 1

LiveConsumers ==
    \E c \in 1..MaxLiveClients :
        WsStarted(c) \/ WsHandleMsg(c) \/ WsText(c) \/ WsStop(c) \/ WsStopping(c)

LiveNext == Controller \/ RenderThreads \/ LiveConsumers

FairSpec ==
    /\ Init
    /\ [][LiveNext]_vars
    /\ WF_vars(Controller)
    /\ \A j \in JobIds : WF_vars(RenderSend(j) \/ RenderExit(j))

\* The same with the shutdown of the server: set_stop() comes at any time
\* after the consumers are gone.
StopNext == LiveNext \/ SetStop

FairStopSpec ==
    /\ Init
    /\ [][StopNext]_vars
    /\ WF_vars(Controller)
    /\ \A j \in JobIds : WF_vars(RenderSend(j) \/ RenderExit(j))

\* The same as FairSpec with consumers that keep reading: an actor that has
\* a message in its mailbox handles it, so that no mailbox stays full.
FairDeliverSpec ==
    /\ Init
    /\ [][LiveNext]_vars
    /\ WF_vars(Controller)
    /\ \A j \in JobIds : WF_vars(RenderSend(j) \/ RenderExit(j))
    /\ \A c \in 1..MaxLiveClients : WF_vars(WsHandleMsg(c))

\* Only the controller thread is sure to keep running: the render threads
\* (the backend) may take for ever over a frame.
FairCtlSpec ==
    /\ Init
    /\ [][LiveNext]_vars
    /\ WF_vars(Controller)

(***************************************************************************)
(* What the claims are stated with.                                        *)
(***************************************************************************)
IsPrefix(s, t) == Len(s) <= Len(t) /\ \A k \in 1..Len(s) : s[k] = t[k]

Registered(c) == clients[c] # Absent

\* the tail of the message sequence, once every frame of the Job is there
GifTail(r) ==
    IF Len(r.frames) # r.job.total_frames THEN <<>>
    ELSE IF r.gif.some THEN <<MsgGif, MsgGifData(r.gif)>>
    ELSE <<MsgGif>>

\* Config, then FrameMeta and FrameData of each frame of r.frames in the order
\* of the list, then GifMeta and GifData
ExpectedInListOrder(r) ==
    <<MsgReset(r.job)>>
    \o [n \in 1..(2 * Len(r.frames)) |->
           IF n % 2 = 1 THEN MsgFrame(r.frames[(n + 1) \div 2].idx)
           ELSE MsgPng(r.frames[n \div 2])]
    \o GifTail(r)

\* Config, then FrameMeta(k) and the FrameData of frame k for k = 0, 1, ... in
\* ascending order, then GifMeta and GifData
ExpectedAscending(r) ==
    <<MsgReset(r.job)>>
    \o [n \in 1..(2 * r.job.total_frames) |->
           IF n % 2 = 1 THEN MsgFrame((n - 1) \div 2)
           ELSE MsgPng([idx |-> (n - 2) \div 2, job |-> r.job.id])]
    \o <<MsgGif, MsgGifData(render_gif(r).gif)>>

\* the frame indices of a list of frames
FrameIndices(frames) == {frames[k].idx : k \in 1..Len(frames)}

\* C1 as stated: the messages sent to a consumer are Config, then FrameMeta(k)
\* and FrameData for k = 0..N-1 in ascending index order, then GifMeta, GifData,
\* under either strategy and for every completion order.
C1_AscendingOrder ==
    \A c \in Clients : Registered(c) => IsPrefix(sent[c], ExpectedAscending(render))

\* C1 amended: the messages sent to a consumer since the Job was applied are a
\* prefix of Config, then FrameMeta(index) and FrameData of each completed frame
\* in the order the frames completed, then GifMeta, GifData; the whole sequence
\* once the consumer is Complete; and the order is ascending under per-block.
C1_CompletionOrder ==
    \A c \in Clients :
        Registered(c) =>
            /\ IsPrefix(sent[c], ExpectedInListOrder(render))
            /\ clients[c] = Complete =>
                   /\ sent[c] = ExpectedInListOrder(render)
                   /\ Len(sent[c]) = 2 * render.job.total_frames + 3
                   /\ FrameIndices(render.frames) = 0..(render.job.total_frames - 1)
            /\ render.job.parallel = "per-block" =>
                   IsPrefix(sent[c], ExpectedAscending(render))

\* a consumer has the whole sequence of a per-frame Job of two frames whose
\* frame 1 completed before frame 0
C1_Witness ==
    \E c \in Clients :
        /\ clients[c] = Complete
        /\ render.job.total_frames = 2
        /\ render.job.parallel = "per-frame"
        /\ render.frames[1].idx = 1
        /\ Len(sent[c]) = 7

\* the frame indices announced to consumer c by FrameMeta since the last Config
Announced(c) == SelectSeq(sent[c], LAMBDA m : m.t = "FrameMeta")

\* C2: between two Job replacements the indices announced to a consumer never
\* repeat, and once the consumer is at NeedsGifMeta or later every index
\* 0..N-1 has been announced exactly once.
C2_NoRepeatNoSkip ==
    \A c \in Clients :
        Registered(c) =>
            LET a == Announced(c) IN
            /\ \A m, n \in 1..Len(a) : m # n => a[m].index # a[n].index
            /\ clients[c].k \in {"NeedsGifMeta", "NeedsGif", "Complete"} =>
                   /\ Len(a) = render.job.total_frames
                   /\ {a[m].index : m \in 1..Len(a)} = 0..(render.job.total_frames - 1)

\* a consumer of a two-frame Job has been told of both frames
C2_Witness ==
    \E c \in Clients :
        /\ clients[c].k = "NeedsGifMeta"
        /\ render.job.total_frames = 2
        /\ Len(Announced(c)) = 2

\* C3: the step that applies a replacement Job sets RenderStatus to the new Job
\* with no frame and no gif and sets every registered consumer to NeedsConfig,
\* whatever its state was; it registers and unregisters nobody.
C3_ResetIsAtomic ==
    [][render'.job.id # render.job.id =>
          /\ job_q # <<>>
          /\ render' = [job |-> Head(job_q), frames |-> <<>>, gif |-> NoGif]
          /\ \A c \in Clients :
                clients'[c] = IF clients[c] = Absent THEN Absent ELSE NeedsConfig]_vars

\* right after a replacement: one consumer is at NeedsConfig with the gif of
\* the old Job still in its mailbox (it was Complete), another with a FrameMeta
\* still in its mailbox (it was at NeedsFrame)
C3_Witness ==
    /\ render.job.id >= 2
    /\ render.frames = <<>>
    /\ \E c, d \in Clients :
          /\ clients[c] = NeedsConfig /\ clients[d] = NeedsConfig
          /\ mailbox[c] # <<>> /\ mailbox[c][1].t = "GifData"
          /\ mailbox[d] # <<>> /\ mailbox[d][1].t = "FrameMeta"

\* C4: every frame in RenderStatus.frames was rendered for the current Job, and
\* so was every frame the controller can still receive.
C4_FramesOfCurrentJob ==
    /\ \A k \in 1..Len(render.frames) : render.frames[k].job = render.job.id
    /\ frame_rx # 0 =>
           /\ frame_rx = render.job.id
           /\ \A k \in 1..Len(chan[frame_rx]) : chan[frame_rx][k].job = render.job.id

\* the render thread of a replaced Job is still rendering while frames of the
\* new Job are stored
C4_Witness ==
    /\ render.frames # <<>>
    /\ \E j \in JobIds :
          /\ j # render.job.id
          /\ thr[j].st = "run"
          /\ thr[j].todo # {}

\* RenderStatus holds exactly the frames of its Job, one per index
FramesExact ==
    /\ Len(render.frames) = render.job.total_frames
    /\ FrameIndices(render.frames) = 0..(render.job.total_frames - 1)
    /\ \A k \in 1..Len(render.frames) : render.frames[k].job = render.job.id

\* C5: eventually, and from then on, RenderStatus holds the Job submitted last
\* with exactly its total_frames frames, one per index.
C5_LastJobCompletes ==
    <>[](render.job.id = njobs /\ job_q = <<>> /\ FramesExact)

\* Job 2 was submitted before Job 1 finished (its thread gave up with frames
\* still to send), and RenderStatus holds exactly the frames of Job 2
C5_Witness ==
    /\ render.job.id = 2
    /\ render.job.total_frames >= 1
    /\ FramesExact
    /\ thr[1].st = "exit"
    /\ thr[1].todo # {}
    /\ thr[1].todo # {}

\* the position of a ClientState in the sequence of states of a Job of n frames
Rank(cs, n) ==
    CASE cs.k = "NeedsConfig" -> 0
      [] cs.k = "NeedsFrameMeta" -> 1 + 2 * cs.i
      [] cs.k = "NeedsFrame" -> 2 + 2 * cs.i
      [] cs.k = "NeedsGifMeta" -> 1 + 2 * n
      [] cs.k = "NeedsGif" -> 2 + 2 * n
      [] cs.k = "Complete" -> 3 + 2 * n

\* the consumer's state has a message to send
HasMessage(cs, r) ==
    LET m == client_match(cs, r) IN
    IF m.do = "continue" THEN client_match(m.next, r).do = "send" ELSE m.do = "send"

\* a step that is a delivery pass over the consumers
UpdateStep == pc = "update" /\ pc' # "update"

\* C6: a consumer's state is ahead of NeedsConfig by exactly the number of
\* messages accepted for it, in every state: an attempt that finds the mailbox
\* full sends nothing and leaves the state where it was, so that the same
\* message is the next one attempted; and a pass that starts on a full mailbox
\* changes neither the mailbox nor what was sent.
C6_FullLeavesState ==
    [][UpdateStep =>
          \A c \in Clients :
              /\ Registered(c) =>
                     /\ clients'[c] # Absent
                     /\ Len(sent'[c]) = Rank(clients'[c], render.job.total_frames)
                     /\ Len(sent[c]) = Rank(clients[c], render.job.total_frames)
              /\ (Registered(c) /\ Len(mailbox[c]) = MailboxCap) =>
                     /\ mailbox'[c] = mailbox[c]
                     /\ sent'[c] = sent[c]
                     /\ Rank(clients'[c], render.job.total_frames)
                            = Rank(clients[c], render.job.total_frames)]_vars

\* after a pass: a consumer with a full mailbox and a frame still to be sent
C6_Witness ==
    /\ pc = "needs_gif"
    /\ \E c \in Clients :
          /\ actor[c] = "running"
          /\ Len(mailbox[c]) = MailboxCap
          /\ clients[c].k = "NeedsFrame"
          /\ sent[c] # <<>>

\* C7: a delivery pass that attempts to send to a consumer whose channel is
\* closed removes the consumer's entry from the map.
C7_ClosedIsDropped ==
    [][UpdateStep =>
          \A c \in Clients :
              (Registered(c) /\ actor[c] = "closed" /\ HasMessage(clients[c], render))
                  => clients'[c] = Absent]_vars

\* a Job as serde accepts it: every field within its type
WellFormedJob(job) ==
    /\ job.total_frames >= 0
    /\ job.samples_per_pixel >= 0
    /\ job.width \in 0..65535
    /\ job.height \in 0..65535
    /\ job.parallel \in {"per-block", "per-frame"}

\* C8: the step that rejects a text message enqueues no Job and changes neither
\* RenderStatus nor the state of any consumer; every Job that is enqueued has
\* every field within its type.
C8_MalformedIgnored ==
    [][/\ ws_log' # ws_log =>
             /\ job_q' = job_q
             /\ njobs' = njobs
             /\ render' = render
             /\ clients' = clients
       /\ Len(job_q') > Len(job_q) => WellFormedJob(job_q'[Len(job_q')])]_vars

\* a text was rejected while a consumer was being served frames
C8_Witness ==
    /\ ws_log
    /\ \E c \in Clients : clients[c].k = "NeedsFrame" /\ actor[c] = "running"

\* pixel (x, y) is in block b
InBlock(b, x, y) ==
    /\ b.x <= x /\ x < b.x + b.width
    /\ b.y <= y /\ y < b.y + b.height

\* C9: every block emitted has a width and a height above zero and lies within
\* the image; once all blocks are emitted, every pixel of the image is in
\* exactly one block.
C9_BlocksPartitionImage ==
    /\ \A k \in 1..Len(rb.blocks) :
          LET b == rb.blocks[k] IN
          /\ b.width > 0 /\ b.height > 0
          /\ b.x >= 0 /\ b.y >= 0
          /\ b.x + b.width <= rb.image_width
          /\ b.y + b.height <= rb.image_height
    /\ rb.phase = "collected" =>
          \A x \in 0..(rb.image_width - 1), y \in 0..(rb.image_height - 1) :
              Cardinality({k \in 1..Len(rb.blocks) : InBlock(rb.blocks[k], x, y)}) = 1

\* all blocks of an image of 33 x 65 pixels are emitted: 2 x 3 blocks, the
\* last column and the last row clipped to one pixel
C9_Witness ==
    /\ rb.phase = "collected"
    /\ rb.image_width = 33 /\ rb.image_height = 65
    /\ Len(rb.blocks) = 6
    /\ rb.blocks[6] = RenderBlock(32, 64, 1, 1)

\* the centre of a grid side of n blocks
GridCenter(n) == Max(spiral_center(n), 0)

\* C10: the spiral sequence, out-of-range coordinates dropped, holds every
\* block of the row-major list exactly once, and its first block is the centre
\* of the grid.
C10_SpiralIsPermutation ==
    rb.phase = "submit" =>
        /\ Len(rb.spiral_blocks) = Len(rb.blocks)
        /\ \A k \in 1..Len(rb.blocks) :
              Cardinality({n \in 1..Len(rb.spiral_blocks) :
                              rb.spiral_blocks[n] = rb.blocks[k]}) = 1
        /\ rb.blocks # <<>> =>
              rb.spiral_blocks[1] =
                  rb.blocks[GridCenter(rb.block_count_y) * rb.block_count_x
                            + GridCenter(rb.block_count_x) + 1]

\* how many results for pixel (x, y) the frame has sent on its channel
PixelResults(x, y) ==
    Cardinality({n \in 1..Len(rb.channel) : rb.channel[n].x = x /\ rb.channel[n].y = y})

\* C11: a frame that is rendered to its end without being stopped has sent
\* exactly one pixel result for every pixel of the image, whatever the image
\* size, and rendering never panics.
C11_EveryPixelOnce ==
    /\ rb.phase # "panic"
    /\ (rb.phase = "done" /\ ~rb.should_stop) =>
          /\ Len(rb.channel) = rb.image_width * rb.image_height
          /\ \A x \in 0..(rb.image_width - 1), y \in 0..(rb.image_height - 1) :
                PixelResults(x, y) = 1

\* the pixel results of the first n blocks submitted, block after block
RECURSIVE ExpectedChannel(_)
ExpectedChannel(n) ==
    IF n = 0 THEN <<>>
    ELSE ExpectedChannel(n - 1)
             \o render_block(Ctx(rb.spiral_blocks[n], rb.image_width, rb.image_height))

\* C12: whatever the order in which the workers finish, the results handed on
\* are those of the first m blocks submitted, in the order of submission, for
\* some m: a result that is ready early is held back until every block
\* submitted before it has been handed on.
C12_StreamInSubmissionOrder ==
    \E m \in 0..Len(rb.futs) :
        /\ rb.channel = ExpectedChannel(m)
        /\ \A k \in 1..m : rb.futs[k].st = "taken"
        /\ \A k \in (m + 1)..Len(rb.futs) :
              rb.futs[k].st = "taken" => (rb.should_stop /\ rb.phase = "done")

\* the first block has been handed on, the second is still being computed and
\* the third, finished early, is held back
C12_Witness ==
    /\ rb.phase = "collect"
    /\ ~rb.should_stop
    /\ Len(rb.futs) >= 3
    /\ rb.futs[1].st = "taken"
    /\ rb.futs[2].st = "pending"
    /\ rb.futs[3].st = "ready"
    /\ rb.channel = rb.futs[1].out
    /\ rb.channel # <<>>

\* the image after the blocks ks (a sequence of indices into spiral_blocks)
\* have been copied into it one after the other
RECURSIVE Assembled(_)
Assembled(ks) ==
    IF ks = <<>> THEN RgbImage(rb.image_width, rb.image_height)
    ELSE fold_step(Assembled(SubSeq(ks, 1, Len(ks) - 1)),
                   rb.spiral_blocks[ks[Len(ks)]]).img

\* the indices of ks in ascending order: the order of submission
InSubmissionOrder(ks) ==
    sort_by_key(ks)

\* C13: whatever the order in which the results of the blocks arrive, the
\* image holds what copying the same blocks in the order of their submission
\* gives, at every moment and so at the end; no copy fails.
C13_AssemblyOrderIndependent ==
    /\ rb.phase # "panic"
    /\ rb.phase \in {"assemble", "assembled"} =>
          rb.img = Assembled(InSubmissionOrder(rb.arrived))

\* a whole image of four blocks whose results arrived last block first
C13_Witness ==
    /\ rb.phase = "assembled"
    /\ Len(rb.arrived) = 4
    /\ rb.arrived[1] = 4
    /\ rb.arrived[4] = 1
    /\ \E p \in DOMAIN rb.img.px : rb.img.px[p] # 0

\* the submissions handed to the backend and not yet collected
InFlight == Cardinality(NotYielded(rb.futs))

\* C14: while a frame of more than one block is rendered, the submissions in
\* flight stay below the number of blocks of the frame: the whole image is
\* never submitted at once.
C14_InFlightBounded ==
    Len(rb.spiral_blocks) > 1 => InFlight < Len(rb.spiral_blocks)

\* the controller thread has returned and no render thread is running: the
\* thread scope can return
ScopeReturns == pc = "exit" /\ \A j \in JobIds : thr[j].st # "run"

\* C15: the controller returns at its first check of the stop flag after the
\* flag is set, no step of an iteration waits for anything but the controller
\* itself, and once the flag is set the controller and every render thread
\* eventually terminate.
C15_StopWindsDown ==
    /\ [][(should_stop /\ pc = "loop" /\ pc' # pc) => pc' = "exit"]_vars
    /\ [](pc # "exit" => ENABLED Controller)
    /\ (should_stop ~> ScopeReturns)

\* the scope returns although the flag was set while a render thread still
\* had frames to render
C15_Witness ==
    /\ should_stop
    /\ ScopeReturns
    /\ \E j \in JobIds : thr[j].st = "exit" /\ thr[j].todo # {}

\* C16: whatever happens to the submissions of a frame (a task may never
\* resolve, or panic), the collection of the frame comes to an end: with all
\* results, or with a failed result standing for the failed submission.
C16_CollectionEnds == <>(rb.phase \in {"done", "failed"})

\* handle k has resolved
Resolved(fut) == fut.st \in {"ready", "taken"}

\* C17: a submission is never refused or made to wait, whatever the workers
\* are doing; the handle of the k-th submission carries the k-th context and
\* resolves to render_block of that context, its own; and once resolved its
\* value never changes nor does it resolve again.
C17_HandleResolvesOnceToOwnResult ==
    /\ [](rb.phase = "submit" => ENABLED FrameSubmit)
    /\ [](\A k \in 1..Len(rb.futs) :
             /\ rb.futs[k].ctx = Ctx(rb.spiral_blocks[k], rb.image_width, rb.image_height)
             /\ Resolved(rb.futs[k]) => rb.futs[k].out = render_block(rb.futs[k].ctx)
             /\ ~Resolved(rb.futs[k]) => rb.futs[k].out = <<>>)
    /\ [][\A k \in 1..Len(rb.futs) :
             Resolved(rb.futs[k]) =>
                 /\ Resolved(rb'.futs[k])
                 /\ rb'.futs[k].out = rb.futs[k].out
                 /\ rb'.futs[k].ctx = rb.futs[k].ctx]_vars

\* four submissions, of which the last two have resolved before the first
\* two, each to the pixels of its own block
C17_Witness ==
    /\ Len(rb.futs) = 4
    /\ rb.futs[1].st = "pending" /\ rb.futs[2].st = "pending"
    /\ rb.futs[3].st = "ready" /\ rb.futs[4].st = "ready"
    /\ rb.futs[3].out # rb.futs[4].out
    /\ rb.futs[4].out # <<>>

(***************************************************************************)
(* C18: ray_color called with depth = 0 returns the zero (black) colour,   *)
(* for every ray and every scene, and makes no intersection query.         *)
(***************************************************************************)
C18_DepthZeroIsBlack ==
    (rb.phase = "traced" /\ rb.depth = 0) =>
        /\ rb.result.color = ZERO
        /\ rb.result.ray_count = 0

\* depth 0 has been traced in a built scene whose spheres the ray would hit
C18_Witness ==
    /\ rb.phase = "traced"
    /\ rb.depth = 0
    /\ rb.scene.bvh
    /\ intersect(rb.scene, rb.ray).some
    /\ rb.result.color = ZERO

\* the gradient from white, for a ray pointing down, to (0.5, 0.7, 1.0), for
\* a ray pointing up, in units of 1/200
Gradient(ray) ==
    LET up == unit_y(ray) + 10 IN <<200 - 5 * up, 200 - 3 * up, 200>>

(***************************************************************************)
(* C19: in a scene with no objects and with depth > 0, ray_color takes     *)
(* the no-hit branch on its first query: it returns the background         *)
(* gradient of the ray, after exactly one intersection query and without   *)
(* calling itself.                                                         *)
(***************************************************************************)
C19_EmptySceneIsBackground ==
    (rb.phase = "traced" /\ rb.depth > 0 /\ rb.scene.objects_sphere = <<>>) =>
        /\ rb.result.color = Gradient(rb.ray)
        /\ rb.result.ray_count = 1
        /\ rb.result.calls = 1

\* an empty scene has been traced with depth left, for a ray that is not
\* pointing straight down
C19_Witness ==
    /\ rb.phase = "traced"
    /\ rb.depth = MaxDepth
    /\ rb.scene.objects_sphere = <<>>
    /\ rb.scene.bvh
    /\ unit_y(rb.ray) > 0
    /\ rb.result.color = background(rb.ray)
    /\ rb.result.color # ZERO

(***************************************************************************)
(* C20: intersect on a scene whose BVH has not been built ends in an       *)
(* error, and returns no normal result such as "no hit".                   *)
(***************************************************************************)
C20_UnbuiltIndexFails ==
    (rb.phase = "intersected" /\ ~rb.scene.bvh) =>
        /\ "error" \in DOMAIN rb.hit_option

(***************************************************************************)
(* C21: in every reachable state a consumer in NeedsFrameMeta(i) has       *)
(* i <= number of completed frames <= total_frames of the current Job, and *)
(* a consumer in NeedsFrame(i) has i < number of completed frames; no      *)
(* delivery pass indexes the frame list out of bounds.                     *)
(***************************************************************************)
C21_IndexInBounds ==
    /\ pc # "panicked"
    /\ Len(render.frames) <= render.job.total_frames
    /\ \A c \in Clients :
          /\ clients[c].k = "NeedsFrameMeta" => clients[c].i <= Len(render.frames)
          /\ clients[c].k = "NeedsFrame" => clients[c].i < Len(render.frames)

\* under a replacement Job, one consumer is about to be sent the last frame
\* and another waits for a frame that has not completed
C21_Witness ==
    /\ render.job.id >= 2
    /\ \E c, d \in Clients :
          /\ clients[c] = NeedsFrame(Len(render.frames) - 1)
          /\ clients[d] = NeedsFrameMeta(Len(render.frames))
          /\ Len(render.frames) < render.job.total_frames

\* in the messages accepted for a consumer since the last Config, every
\* FrameMeta that has a successor is followed by the FrameData of the frame of
\* the current Job with the announced index, and every FrameData follows its
\* FrameMeta
MetaThenData(s) ==
    \A n \in 1..Len(s) :
        /\ (s[n].t = "FrameMeta" /\ n < Len(s)) =>
               s[n + 1] = MsgPng([idx |-> s[n].index, job |-> render.job.id])
        /\ s[n].t = "FrameData" =>
               /\ n > 1
               /\ s[n - 1] = MsgFrame(s[n].index)
               /\ s[n].job = render.job.id

\* what a step may do to a consumer whose last accepted message is FrameMeta
AfterFrameMeta(c) ==
    LET n == Len(sent[c]) IN
    \/ sent'[c] = sent[c]
    \/ /\ Len(sent'[c]) > n
       /\ SubSeq(sent'[c], 1, n) = sent[c]
       /\ sent'[c][n + 1] = MsgPng([idx |-> sent[c][n].index, job |-> render.job.id])
       /\ render'.job = render.job
    \/ /\ render'.job.id # render.job.id
       /\ clients'[c] = NeedsConfig
       /\ sent'[c] = <<>>
    \/ clients'[c] = Absent

\* the first message accepted for a consumer that is at NeedsConfig is the
\* Config of the current Job
ConfigFirst(c) ==
    (clients[c] = NeedsConfig /\ sent'[c] # <<>> /\ clients'[c] # Absent) =>
        sent'[c][1] = MsgReset(render'.job)

(***************************************************************************)
(* C22: the FrameData sent right after FrameMeta{index: k} is the encoded  *)
(* image of frame k of the current Job, also when the frames complete out  *)
(* of index order; the only message that can come between a FrameMeta and  *)
(* its FrameData is the Config of a Job replacement, and after it the      *)
(* FrameData of the old Job is never sent.                                 *)
(***************************************************************************)
C22_DataFollowsItsMeta ==
    /\ [](\A c \in Clients : Registered(c) => MetaThenData(sent[c]))
    /\ [][\A c \in Clients :
              /\ clients[c].k = "NeedsFrame" => AfterFrameMeta(c)
              /\ ConfigFirst(c)]_vars

\* under a replacement Job whose frame 1 completed first, a consumer has been
\* sent FrameMeta{1} and the image of frame 1 before those of frame 0
C22_Witness ==
    \E c \in Clients :
        /\ render.job.id >= 2
        /\ Len(sent[c]) >= 4
        /\ sent[c][2] = MsgFrame(1)
        /\ sent[c][3] = MsgPng([idx |-> 1, job |-> render.job.id])
        /\ sent[c][4] = MsgFrame(0)

\* the mailbox only loses messages from its head
IsSuffix(s, t) ==
    Len(s) <= Len(t) /\ \A k \in 1..Len(s) : s[k] = t[Len(t) - Len(s) + k]

(***************************************************************************)
(* C23: a consumer in Complete is sent no further message and stays in     *)
(* Complete across every delivery pass, until a Job replacement sets it    *)
(* back to NeedsConfig (or it disconnects); and Complete is reached only   *)
(* after the gif of the current Job has been sent to the consumer.         *)
(***************************************************************************)
C23_CompleteIsTerminal ==
    /\ [](\A c \in Clients :
             clients[c] = Complete =>
                 /\ render.gif.some
                 /\ render.gif.job = render.job.id
                 /\ sent[c] # <<>>
                 /\ sent[c][Len(sent[c])] = MsgGifData(render.gif))
    /\ [][\A c \in Clients :
              clients[c] = Complete =>
                  \/ /\ clients'[c] = Complete
                     /\ sent'[c] = sent[c]
                     /\ IsSuffix(mailbox'[c], mailbox[c])
                     /\ render' = render
                  \/ /\ clients'[c] = NeedsConfig
                     /\ render'.job.id # render.job.id
                  \/ clients'[c] = Absent]_vars

\* a delivery pass is about to run over a consumer that is Complete and has
\* been handed everything
C23_Witness ==
    /\ pc = "update"
    /\ \E c \in Clients :
          /\ clients[c] = Complete
          /\ actor[c] = "running"
          /\ mailbox[c] = <<>>
          /\ render.job.total_frames = MaxFrames

\* 0, 1, ..., n-1
Ascending(n) == [k \in 1..n |-> k - 1]

(***************************************************************************)
(* C24: the gif exists only when the number of completed frames equals     *)
(* total_frames of the current Job; it is built at most once per Job; and  *)
(* its frames are encoded in ascending index order, whatever the order of  *)
(* completion was.                                                         *)
(***************************************************************************)
C24_GifOncePerJobInIndexOrder ==
    /\ [](render.gif.some =>
             /\ Len(render.frames) = render.job.total_frames
             /\ render.gif.job = render.job.id
             /\ render.gif.order = Ascending(render.job.total_frames))
    /\ [][render'.gif # render.gif =>
             \/ ~render.gif.some /\ render'.gif.some /\ render'.job = render.job
             \/ ~render'.gif.some /\ render'.job.id # render.job.id]_vars

\* the gif of a Job whose frame 1 completed before its frame 0
C24_Witness ==
    /\ render.gif.some
    /\ render.job.total_frames = 2
    /\ render.frames[1].idx = 1
    /\ render.gif.order = <<0, 1>>

(***************************************************************************)
(* C25: within one controller iteration in which all frames are done and   *)
(* no gif exists, the gif is built first and the delivery pass over the    *)
(* consumers runs after it: no delivery pass runs on a RenderStatus that   *)
(* has every frame and no gif.                                             *)
(***************************************************************************)
C25_GifBuiltBeforePass ==
    [][UpdateStep =>
          (Len(render.frames) = render.job.total_frames => render.gif.some)]_vars

\* the Job with this id is waiting in the job channel
Waiting(id) == \E k \in 1..Len(job_q) : job_q[k].id = id

(***************************************************************************)
(* C26: a valid Job submitted while the frames of an earlier Job are still *)
(* being rendered becomes the active Job, or is superseded by a later one, *)
(* within a bounded number of controller iterations and without waiting    *)
(* for the earlier Job's frames: every iteration goes through the drain,   *)
(* the drain applies a waiting Job whatever the render threads are doing   *)
(* and does not end while a Job is waiting, and this holds when the render *)
(* threads never deliver.                                                  *)
(***************************************************************************)
C26_JobPreempts ==
    /\ [][(pc = "loop" /\ pc' # "loop") => pc' \in {"drain", "exit"}]_vars
    /\ [][(pc = "drain" /\ pc' = "select") => job_q = <<>>]_vars
    /\ [][(pc = "drain" /\ Len(job_q') < Len(job_q)) =>
              (render'.job = Head(job_q) /\ frame_rx' = Head(job_q).id)]_vars
    /\ \A id \in JobIds : Waiting(id) ~> (render.job.id >= id)

\* the second Job is the active one while the render thread of the first has
\* not handed over any of its frames
C26_Witness ==
    /\ render.job.id = 2
    /\ thr[1].st = "run"
    /\ thr[1].todo = 0..(MaxFrames - 1)
    /\ chan[1] = <<>>

\* the thread is at a statement that waits: select!, the actor's mailbox and
\* stream, the backend's future
Waits(th) == rb.at[th].todo # <<>> /\ Head(rb.at[th].todo).op = "wait"

(***************************************************************************)
(* C27: RenderStatus is written only by the controller thread; every read  *)
(* and write of RenderStatus and of the consumer map is done with the      *)
(* mutex held by the thread that does it; and no thread holds the mutex    *)
(* while it waits on a channel receive or on a backend future.             *)
(***************************************************************************)
C27_MutexDiscipline ==
    /\ (rb.last.stmt = Stmt("write", "render")) => rb.last.thread = "controller"
    /\ (rb.last.stmt.op \in {"read", "write"}
            /\ rb.last.stmt.obj \in {"render", "clients"}) => rb.last.held
    /\ rb.last.stmt.op = "wait" => ~rb.last.held
    /\ \A th \in Threads : Waits(th) => rb.holder # th

\* the controller has just pushed a frame with the mutex held, while the
\* actor waits for the mutex and the render thread waits on the backend
C27_Witness ==
    /\ rb.last = [thread |-> "controller", stmt |-> Stmt("write", "render"), held |-> TRUE]
    /\ rb.holder = "controller"
    /\ rb.at["actor"].todo # <<>>
    /\ Head(rb.at["actor"].todo).op = "lock"
    /\ Waits("render")

(***************************************************************************)
(* C28: if the Job is not replaced again, the backend completes every      *)
(* frame, and a consumer stays connected with a mailbox that does not stay *)
(* full, then the consumer eventually reaches Complete, and stays there.   *)
(***************************************************************************)
C28_ConnectedConsumerCompletes ==
    \A c \in 1..MaxLiveClients :
        <>[](actor[c] = "running") => <>[](clients[c] = Complete)

\* a consumer that stayed connected has everything of the last Job
C28_Witness ==
    \E c \in 1..MaxLiveClients :
        /\ clients[c] = Complete
        /\ actor[c] = "running"
        /\ mailbox[c] = <<>>
        /\ render.job.id = MaxJobs
        /\ render.job.total_frames = MaxFrames
        /\ pc = "select"

\* Job j was applied and has been replaced
Superseded(j) == thr[j].st # "none" /\ render.job.id # j

C30_AppendOrder ==
    LET n == Len(render.frames)
        j == render.job.id
        queued == IF frame_rx = 0 THEN <<>> ELSE chan[frame_rx]
        handed == [k \in 1..(n + Len(queued)) |->
                      IF k <= n THEN render.frames[k].idx ELSE queued[k - n].idx]
    IN /\ render.job.parallel = "per-block" =>
              /\ handed = Ascending(Len(handed))
              /\ (j # 0 /\ thr[j].st = "run" /\ frame_rx = j) =>
                     thr[j].todo = Len(handed)..(render.job.total_frames - 1)
       /\ render.job.parallel = "per-frame" =>
              /\ \A k, m \in 1..Len(handed) : k # m => handed[k] # handed[m]
              /\ n = render.job.total_frames =>
                     FrameIndices(render.frames) = 0..(render.job.total_frames - 1)

\* both strategies at work: the current Job is per-block with its frames
\* appended, and the Job before it was per-frame and handed frame 1 over first
C30_Witness ==
    /\ render.job.id = 2
    /\ render.job.parallel = "per-block"
    /\ Len(render.frames) = 2
    /\ thr[1].parallel = "per-frame"
    /\ thr[1].todo = {0}

(***************************************************************************)
(* C31: a consumer is registered in state NeedsConfig when its connection  *)
(* starts and removed when it stops; the assertion that the entry did not  *)
(* exist at start and the assertion that it did exist at stop never fail,  *)
(* under any interleaving with delivery passes and Job replacements.       *)
(***************************************************************************)
C31_RegisteredWhileConnected ==
    /\ [](\A c \in Clients :
             /\ actor[c] # "panicked"
             /\ actor[c] = "none" <=> clients[c] = Absent)
    /\ [][\A c \in Clients :
              /\ (actor[c] = "none" /\ actor'[c] # "none") =>
                     (actor'[c] = "running" /\ clients'[c] = NeedsConfig)
              /\ (actor[c] = "closed" /\ actor'[c] # "closed") =>
                     (actor'[c] = "none" /\ clients'[c] = Absent)]_vars

\* under a replacement Job with frames: the connection of one consumer has
\* closed while it was being sent a frame and its entry is about to be
\* removed, and another consumer is registered in NeedsConfig
C31_Witness ==
    \E c, d \in Clients :
        /\ render.job.id >= 2
        /\ actor[c] = "closed"
        /\ clients[c].k = "NeedsFrame"
        /\ actor[d] = "running"
        /\ clients[d] = NeedsConfig
        /\ render.frames # <<>>

\* t_max a is not greater than t_max b
TLe(a, b) == b.inf \/ (~a.inf /\ a.t <= b.t)

\* the object tested for a bound
Tested(scene, bounds) == scene.objects_sphere[bounds.hittable_index + 1]

\* the hits, in the order of the search, of the candidates that the ray hits
\* within the initial interval (TRACE_EPSILON, TRACE_INFINITY)
HitsWithin(scene, seen, ray) ==
    LET within == SelectSeq(seen, LAMBDA b : ray \in Tested(scene, b).hits
                                             /\ Tested(scene, b).t > 0)
    IN [k \in 1..Len(within) |-> SomeHit(Tested(scene, within[k]))]

\* the first of the hits with the least t
FirstClosest(hits) ==
    hits[CHOOSE k \in 1..Len(hits) :
             /\ \A m \in 1..Len(hits) : hits[k].t <= hits[m].t
             /\ \A m \in 1..(k - 1) : hits[m].t > hits[k].t]

(***************************************************************************)
(* C32: intersect returns None when no candidate is hit within the         *)
(* interval, and otherwise a hit with the minimum t among the candidates   *)
(* hit within the initial interval, the first one encountered of hits with *)
(* equal t; during a search t_max never increases and is lowered to the    *)
(* hit's t as soon as a hit is found.                                      *)
(***************************************************************************)
C32_ClosestHitFirstOfTies ==
    /\ [](rb.phase = "found" =>
             LET hits == HitsWithin(rb.scene, rb.seen, rb.ray) IN
             /\ rb.seen = hit_bounds(rb.scene, rb.ray) \/ ~rb.scene.bvh
             /\ rb.result = IF hits = <<>> THEN NoHit ELSE FirstClosest(hits)
             /\ rb.result = intersect(rb.scene, rb.ray))
    /\ [][(rb.phase = "search" /\ rb'.phase = "search" /\ ~rb'.st.panic) =>
             LET hit_option == obj_intersect(Tested(rb.scene, Head(rb.left)), rb.ray,
                                             rb.st.t_max)
             IN /\ TLe(rb'.st.t_max, rb.st.t_max)
                /\ hit_option.some => rb'.st.t_max = [inf |-> FALSE, t |-> hit_option.t]
                /\ ~hit_option.some => rb'.st.t_max = rb.st.t_max]_vars

\* a search has ended in which two candidates were hit at the same distance
\* after a farther one, and the first of the two is the result
C32_Witness ==
    /\ rb.phase = "found"
    /\ Len(rb.seen) = 3
    /\ rb.seen[1].of = SphereCatalogue[1]
    /\ rb.seen[2].of = SphereCatalogue[2]
    /\ rb.seen[3].of = SphereCatalogue[3]
    /\ rb.ray = 2
    /\ rb.result = SomeHit(SphereCatalogue[2])

(***************************************************************************)
(* C33: after build, every bounding volume of the index refers, by         *)
(* position, to the object it was computed from: for each candidate bound  *)
(* intersect tests that very object, also when the scene holds both        *)
(* generic hittables and spheres.                                          *)
(***************************************************************************)
C33_BoundsReferToTheirObject ==
    /\ rb.phase # "panicked"
    /\ rb.phase \in {"search", "found"} =>
           \A k \in 1..Len(rb.seen) :
               /\ rb.seen[k].hittable_index < Len(rb.scene.objects_sphere)
               /\ Tested(rb.scene, rb.seen[k]) = rb.seen[k].of

(***************************************************************************)
(* C34: ray_color with depth d >= 0 terminates after at most d             *)
(* intersection queries and at most d nested calls, for every scene and    *)
(* every behaviour of the materials; a hit whose material absorbs the ray  *)
(* yields black, and so does a chain of d scatters.                        *)
(***************************************************************************)
C34_DepthBoundsTrace ==
    rb.phase = "traced" =>
        /\ rb.result.ray_count <= rb.depth
        /\ rb.result.calls - 1 <= rb.depth
        /\ rb.result.calls - 1 = rb.depth => rb.result.color = ZERO
        /\ (rb.depth > 0 /\ intersect(rb.scene, rb.ray).some /\ rb.scatter_to[rb.ray] = 0) =>
               /\ rb.result.color = ZERO
               /\ rb.result.ray_count = 1
               /\ rb.result.calls = 1

\* a trace of MaxDepth scatters that ended on the depth, and in whose scene a
\* ray that is hit would be absorbed
C34_Witness ==
    /\ rb.phase = "traced"
    /\ rb.depth = MaxDepth
    /\ rb.result.ray_count = MaxDepth
    /\ rb.result.calls = MaxDepth + 1
    /\ rb.result.color = ZERO
    /\ \E ray \in Rays : intersect(rb.scene, ray).some /\ rb.scatter_to[ray] = 0

(***************************************************************************)
(* C35: render_block returns exactly width * height pixel results for its  *)
(* block: one for every pixel (x, y) with block.x <= x < block.x + width   *)
(* and block.y <= y < block.y + height, none outside the block and none    *)
(* twice.                                                                  *)
(***************************************************************************)
BlockPixels(b) == (b.x..(b.x + b.width - 1)) \X (b.y..(b.y + b.height - 1))

C35_BlockResultsCoverBlock ==
    \A k \in 1..Len(rb.futs) :
        rb.futs[k].st \in {"ready", "taken"} =>
            LET b == rb.futs[k].ctx.renderblock
                out == rb.futs[k].out
            IN /\ Len(out) = b.width * b.height
               /\ {<<out[n].x, out[n].y>> : n \in 1..Len(out)} = BlockPixels(b)
               /\ Cardinality({<<out[n].x, out[n].y>> : n \in 1..Len(out)}) = Len(out)

\* the results of a block of several rows that is not square and does not
\* start at the origin of the image
C35_Witness ==
    \E k \in 1..Len(rb.futs) :
        /\ rb.futs[k].st = "ready"
        /\ rb.futs[k].ctx.renderblock.width # rb.futs[k].ctx.renderblock.height
        /\ rb.futs[k].ctx.renderblock.height > 1
        /\ rb.futs[k].ctx.renderblock.x > 0
        /\ Len(rb.futs[k].out) = rb.futs[k].ctx.renderblock.width * rb.futs[k].ctx.renderblock.height

(***************************************************************************)
(* C36: the channel of pixel results, created with capacity                *)
(* image_width * image_height, never holds more pixels than its capacity,  *)
(* and render_frame never blocks on sending a pixel, although no result    *)
(* is taken out of the channel while the frame is rendered.                *)
(***************************************************************************)
C36_ChannelNeverFull ==
    /\ Len(rb.channel) <= rb.image_width * rb.image_height
    /\ rb.phase # "blocked"

\* a frame of several blocks rendered to its end, the channel filled to its
\* capacity
C36_Witness ==
    /\ rb.phase = "done"
    /\ ~rb.should_stop
    /\ Len(rb.futs) > 1
    /\ Len(rb.channel) = rb.image_width * rb.image_height

(***************************************************************************)
(* C37: poll_results returns None once the renderer is stopped and         *)
(* otherwise the pixels that are in the channel; once all                  *)
(* image_width * image_height pixels of the frame have been returned,      *)
(* over any number of calls, the renderer is marked stopped (and so later  *)
(* calls return None).                                                     *)
(***************************************************************************)
C37_PollStopsAfterAllPixels ==
    /\ rb.last_poll.called =>
           rb.last_poll.result =
               IF rb.last_poll.stopped THEN None ELSE Some(rb.last_poll.channel)
    /\ (rb.image_width * rb.image_height > 0
            /\ Len(rb.polled) = rb.image_width * rb.image_height) => rb.should_stop

====
